---------------------------- MODULE Spec2Model ----------------------------
(***************************************************************************)
(* Booking allocation engine of CrisisIntel                                *)
(* (Backend/crisisintel/api/views.py): book_service, book_appointment and  *)
(* the lifecycle handlers of service bookings and appointments, over the   *)
(* shared relational store and MySQL's named advisory locks.               *)
(*                                                                         *)
(* Conventions.  A clock time 'HH:MM' is the pair <<h, m>>; an absent      *)
(* value (Python None, SQL NULL) of that kind is the empty tuple.  A       *)
(* timestamp is a number of seconds; a calendar day is timestamp \div      *)
(* 86400.  Every SQL statement is one atomic step (the connection runs in  *)
(* autocommit mode, db.py).                                                *)
(***************************************************************************)
EXTENDS Integers, Sequences, FiniteSets, TLC

(***************************************************************************)
(* Values shared by the whole model                                        *)
(***************************************************************************)

\* Python None for an 'HH:MM' string
NoTime == <<>>

\* Python None for a number of minutes (hhmm_to_min's failure value)
NoMin == -1

\* a string that hhmm.split(':') does not parse into two integers
BadTime == <<-1>>

Max(a, b) == IF a >= b THEN a ELSE b

\* views.py:1456 hhmm_to_min (and 1390 _hhmm_to_min): 'HH:MM' -> minutes,
\* None when the text does not split into two integers
hhmm_to_min(hhmm) ==
    IF Len(hhmm) = 2 THEN hhmm[1] * 60 + hhmm[2] ELSE NoMin

\* views.py:1462 min_to_hhmm: minutes -> 'HH:MM', wrapped to one day
min_to_hhmm(minutes) ==
    LET mm == minutes % (24 * 60)
    IN  <<mm \div 60, mm % 60>>

\* views.py:1452 step = int(svc.get('duration_minutes') or 30)
StepOf(duration_minutes) ==
    IF duration_minutes = 0 THEN 30 ELSE duration_minutes

\* views.py:1470 wstart_min = hhmm_to_min(wstart) if wstart else 0
WStartMin(wstart) == IF wstart = NoTime THEN 0 ELSE hhmm_to_min(wstart)

\* views.py:1471 wend_min = hhmm_to_min(wend) if wend else (23*60+59)
WEndMin(wend) == IF wend = NoTime THEN 23 * 60 + 59 ELSE hhmm_to_min(wend)

\* views.py:1468 desired = time_part or (wstart or '09:00')
DesiredOf(time_part, wstart) ==
    IF time_part # NoTime THEN time_part
    ELSE IF wstart # NoTime THEN wstart
    ELSE <<9, 0>>

\* views.py:1469-1474 desired_min, clamped into [wstart_min, wend_min]:
\* first raised to the window start, then lowered to the window end
DesiredMin(time_part, wstart, wend) ==
    LET d0 == hhmm_to_min(DesiredOf(time_part, wstart))
        d1 == IF d0 < WStartMin(wstart) THEN WStartMin(wstart) ELSE d0
        d2 == IF d1 > WEndMin(wend) THEN WEndMin(wend) ELSE d1
    IN  IF d0 = NoMin THEN NoMin ELSE d2

\* faulty variant of MaxIters: the search covers half the window's steps
MaxItersHalf(wstart_min, wend_min, step) ==
    Max(1, (wend_min - wstart_min) \div Max(1, step)) \div 2

\* views.py:1485 max_iters = max(1, ((wend_min - wstart_min) // max(1, step)))
MaxIters(wstart_min, wend_min, step) ==
    Max(1, (wend_min - wstart_min) \div Max(1, step))

\* faulty variant of CandidateFree: the window test is dropped
CandidateFreeAnywhere(cm, wstart_min, wend_min, taken) ==
    min_to_hhmm(cm) \notin taken

\* views.py:1489-1492 a candidate minute is usable when it lies in the
\* window and its 'HH:MM' text is not in the taken set
CandidateFree(cm, wstart_min, wend_min, taken) ==
    /\ ~(cm < wstart_min \/ cm > wend_min)
    /\ min_to_hhmm(cm) \notin taken

\* faulty variant of SignOrder: the earlier candidate is tried first
SignOrderEarlierFirst == <<-1, 1>>

\* views.py:1487 for sign in ([0] if i == 0 else [+1, -1]): at each
\* distance i > 0 the later candidate is tried before the earlier one
SignOrder == <<1, -1>>

\* views.py:1486-1497 the search loop from distance i on: the first usable
\* candidate in the order desired, +step, -step, +2*step, -2*step, ...
RECURSIVE SearchFrom(_, _, _, _, _, _, _)
SearchFrom(i, max_iters, desired_min, step, wstart_min, wend_min, taken) ==
    LET c1 == desired_min + SignOrder[1] * i * step
        c2 == desired_min + SignOrder[2] * i * step
    IN  IF i > max_iters THEN NoTime
        ELSE IF i = 0 /\ CandidateFree(desired_min, wstart_min, wend_min, taken)
             THEN min_to_hhmm(desired_min)
        ELSE IF i > 0 /\ CandidateFree(c1, wstart_min, wend_min, taken)
             THEN min_to_hhmm(c1)
        ELSE IF i > 0 /\ CandidateFree(c2, wstart_min, wend_min, taken)
             THEN min_to_hhmm(c2)
        ELSE SearchFrom(i + 1, max_iters, desired_min, step,
                        wstart_min, wend_min, taken)

\* faulty variant of NearestSlot: the requested time of day is dropped and the
\* search starts from the window start
NearestSlotFromWindowStart(time_part, wstart, wend, duration_minutes, taken) ==
    SearchFrom(0,
               MaxIters(WStartMin(wstart), WEndMin(wend), StepOf(duration_minutes)),
               DesiredMin(NoTime, wstart, wend), StepOf(duration_minutes),
               WStartMin(wstart), WEndMin(wend), taken)

\* views.py:1446-1499 the nearest-slot search of book_service for a
\* non-ambulance service: the allocated 'HH:MM', or NoTime when the loop
\* ends without a slot (the handler then answers 'full').  Defined for
\* a parsable desired time (DesiredMin # NoMin).
NearestSlot(time_part, wstart, wend, duration_minutes, taken) ==
    SearchFrom(0,
               MaxIters(WStartMin(wstart), WEndMin(wend), StepOf(duration_minutes)),
               DesiredMin(time_part, wstart, wend), StepOf(duration_minutes),
               WStartMin(wstart), WEndMin(wend), taken)


(***************************************************************************)
(* State                                                                   *)
(***************************************************************************)
VARIABLES
    now,               \* datetime.utcnow(), in seconds
    service_bookings,  \* table service_bookings: row i has id i
    appointments,      \* table appointments: row i has id i
    named_locks,       \* MySQL's GET_LOCK table: the set of [key, holder]
    notifications,     \* table notifications: the set of rows _notify wrote
    sessions,          \* one record per worker: the request it is serving
    alloc,             \* one call of the nearest-slot search: inputs, result
    available_beds     \* incident_hospital_resources.available_beds of the
                       \* row of incident 1 and hospital 10

vars == <<now, service_bookings, appointments, named_locks, notifications,
          sessions, alloc, available_beds>>

(***************************************************************************)
(* The nearest-slot search on its own (views.py:1446-1499)                 *)
(***************************************************************************)

\* at most this many taken times in one call of the search
MaxTaken == 3

\* the requested time of day scheduled_at[11:16]: absent, on the half-hour
\* grid, off the grid, outside the window, and text that does not parse
AllocTimeParts ==
    {NoTime, <<9, 0>>, <<9, 15>>, <<10, 0>>, <<11, 45>>, <<8, 0>>, <<13, 0>>,
     BadTime}

\* hospital_services.window_start_time / window_end_time ('HH:MM' or NULL)
AllocWindowStarts == {NoTime, <<9, 0>>}

AllocWindowEnds == {NoTime, <<12, 0>>, <<10, 0>>}

\* hospital_services.duration_minutes: 0 is what _ensure_ambulance_service
\* and _ensure_emergency_bed_service store; update_hospital_service accepts
\* any integer, a negative one included
AllocDurations == {0, 15, 30, 60, -30}

\* TIME(scheduled_at) of the day's booked rows
AllocTakenTimes ==
    {<<9, 0>>, <<9, 15>>, <<9, 30>>, <<10, 0>>, <<10, 30>>, <<8, 30>>, <<12, 0>>}

IdleAlloc ==
    [pc |-> "idle", time_part |-> NoTime, wstart |-> NoTime, wend |-> NoTime,
     duration_minutes |-> 0, taken |-> {}, found |-> NoTime]

InitAllocInputs ==
    alloc \in [pc : {"call"}, time_part : AllocTimeParts,
               wstart : AllocWindowStarts, wend : AllocWindowEnds,
               duration_minutes : AllocDurations,
               taken : {t \in SUBSET AllocTakenTimes : Cardinality(t) <= MaxTaken},
               found : {NoTime}]

\* views.py:1468-1499: the search is run on the inputs; a desired time that
\* does not parse makes `desired_min + sign * i * step` raise TypeError
FindNearestSlot ==
    /\ alloc.pc = "call"
    /\ alloc' =
         IF DesiredMin(alloc.time_part, alloc.wstart, alloc.wend) = NoMin
         THEN [alloc EXCEPT !.pc = "raised"]
         ELSE LET f == NearestSlot(alloc.time_part, alloc.wstart, alloc.wend,
                                   alloc.duration_minutes, alloc.taken)
              IN  [alloc EXCEPT !.found = f,
                                !.pc = IF f = NoTime THEN "full" ELSE "found"]
    /\ UNCHANGED <<now, service_bookings, appointments, named_locks,
                   notifications, sessions, available_beds>>


(***************************************************************************)
(* The store: clock, rows, queries                                         *)
(***************************************************************************)

SecondsPerDay == 24 * 60 * 60

\* SQL DATE(ts), Python strftime('%Y-%m-%d') and scheduled_at[:10]
DateOf(ts) == ts \div SecondsPerDay

\* SQL TIME(ts) cut to 'HH:MM' (str(tval)[:5], strftime('%H:%M'))
TimeOf(ts) == min_to_hhmm((ts % SecondsPerDay) \div 60)

\* datetime(year, month, day, hour, minute, 0) of a date and an 'HH:MM'
Timestamp(day, hhmm) == day * SecondsPerDay + hhmm_to_min(hhmm) * 60

\* the lead of an ambulance's time over now, in minutes (views.py:1480)
AmbulanceLeadMinutes == 15

\* the requester's cancellation cut-off, in seconds (views.py:1646, 2598)
CancelCutoff == 2 * 3600

\* faulty variant of TooLate: a request exactly at the cut-off is too late
TooLateAtCutoff(st, t) == st - t <= CancelCutoff

\* views.py:1646 and 2597-2598: (st - now).total_seconds() < 2*3600
TooLate(st, t) == st - t < CancelCutoff

\* faulty variant of InitialStatus: rows are created already confirmed
InitialStatusConfirmed == "confirmed"

\* the status literal of the two INSERT statements (views.py:1519, 2380)
InitialStatus == "booked"

\* faulty variant of UpdateStatus: the WHERE clause does not test the status
UpdateStatusUnguarded(table, id, from, to) ==
    [table EXCEPT ![id].status = to]

\* UPDATE <table> SET status=<to> WHERE id=<id> AND status=<from>
\* (views.py:1650, 1715, 1750, 2549, 2603, 2645, 2662)
UpdateStatus(table, id, from, to) ==
    IF table[id].status = from THEN [table EXCEPT ![id].status = to]
    ELSE table

\* request body without 'scheduled_at'
NoSched == <<>>

\* table hospital_services (add_hospital_service and
\* _ensure_ambulance_service write it): service 1 is a windowed service
\* with a daily limit, service 2 is the hospital's 'Ambulance' service
\* (max_per_day, window and duration as _ensure_ambulance_service stores
\* them: NULL, NULL, 0), service 3 is a service named 'Ambulance van' to
\* which add_hospital_service or update_hospital_service gave a daily limit
\* and a window (views.py:1166-1247), service 4 is a windowed service that
\* takes three bookings a day.  max_per_day 0 stands for NULL.
hospital_services ==
    (1 :> [hospital_user_id |-> 10, ambulance |-> FALSE, available |-> 1,
           max_per_day |-> 1, window_start_time |-> <<9, 0>>,
           window_end_time |-> <<10, 0>>, duration_minutes |-> 30])
    @@
    (2 :> [hospital_user_id |-> 10, ambulance |-> TRUE, available |-> 1,
           max_per_day |-> 0, window_start_time |-> NoTime,
           window_end_time |-> NoTime, duration_minutes |-> 0])
    @@
    (3 :> [hospital_user_id |-> 10, ambulance |-> TRUE, available |-> 1,
           max_per_day |-> 1, window_start_time |-> <<9, 0>>,
           window_end_time |-> <<10, 0>>, duration_minutes |-> 30])
    @@
    (4 :> [hospital_user_id |-> 10, ambulance |-> FALSE, available |-> 1,
           max_per_day |-> 3, window_start_time |-> <<9, 0>>,
           window_end_time |-> <<10, 0>>, duration_minutes |-> 30])

\* tables crises and incidents: crisis 1 belongs to incident 1, which is
\* open; crisis 2 belongs to incident 2, which has been closed; 0 stands
\* for a request or a row without crisis_id
crises ==
    (1 :> [incident_id |-> 1, status |-> "open"])
    @@
    (2 :> [incident_id |-> 2, status |-> "closed"])

\* views.py:7102-7116 _require_crisis_open: writes are refused once the
\* crisis' incident is closed or cancelled; an unknown crisis passes
RequireCrisisOpen(crisis_id) ==
    ~(crisis_id \in DOMAIN crises
      /\ crises[crisis_id].status \in {"closed", "cancelled"})

\* views.py:1300-1307 and 1691-1697: the bookings whose confirmation takes
\* a bed are those of a crisis with an incident, for a service whose name
\* does not contain 'ambulance'
TakesBed(crisis_id, service_id) ==
    /\ crisis_id \in DOMAIN crises
    /\ crises[crisis_id].incident_id # 0
    /\ ~hospital_services[service_id].ambulance

\* available_beds of the incident's row when the store is set up
InitialBeds == 1

\* faulty variant of DecrementBeds: the subtraction is not clamped
DecrementBedsUnclamped(beds) == beds - 1

\* views.py:1707: CASE WHEN COALESCE(available_beds,0)-1 < 0 THEN 0
\* ELSE COALESCE(available_beds,0)-1 END
DecrementBeds(beds) == IF beds - 1 < 0 THEN 0 ELSE beds - 1

\* ids of the rows of a table
Ids(table) == 1 .. Len(table)

\* the statuses the counting queries of book_service select
\* (views.py:1330, 1347, 1420, 1431: ... AND status='booked')
CountedStatuses == {"booked"}

\* views.py:1347 and 1420: SELECT COUNT(1) FROM service_bookings WHERE
\* service_id=%s AND DATE(scheduled_at)=DATE(%s) AND status='booked'
CountBooked(service_id, day) ==
    Cardinality({i \in Ids(service_bookings) :
        /\ service_bookings[i].service_id = service_id
        /\ DateOf(service_bookings[i].scheduled_at) = day
        /\ service_bookings[i].status \in CountedStatuses})

\* views.py:1330: the same count for one requester
CountBookedUser(user_id, service_id, day) ==
    Cardinality({i \in Ids(service_bookings) :
        /\ service_bookings[i].user_id = user_id
        /\ service_bookings[i].service_id = service_id
        /\ DateOf(service_bookings[i].scheduled_at) = day
        /\ service_bookings[i].status \in CountedStatuses})

\* views.py:1428-1444: the set of taken 'HH:MM' of that service and date
TakenTimes(service_id, day) ==
    {TimeOf(service_bookings[i].scheduled_at) : i \in
        {j \in Ids(service_bookings) :
            /\ service_bookings[j].service_id = service_id
            /\ DateOf(service_bookings[j].scheduled_at) = day
            /\ service_bookings[j].status \in CountedStatuses}}

\* faulty variant of SvcLockKey: the key leaves the day out
SvcLockKeyWithoutDay(service_id, date_part) == <<"svc", service_id>>

\* views.py:1409 lock_key = f"svc:{service_id}:{date_part}"
SvcLockKey(service_id, date_part) == <<"svc", service_id, date_part>>

\* the session holding a named lock, 0 when it is free
LockHolder(key) ==
    IF \E l \in named_locks : l.key = key
    THEN (CHOOSE l \in named_locks : l.key = key).holder
    ELSE 0

\* a worker that serves no request
Idle == [op |-> "idle", pc |-> "idle"]


(***************************************************************************)
(* book_service (views.py:1260-1579)                                       *)
(***************************************************************************)

\* book_service requests that may still insert a row
PendingBookService ==
    Cardinality({s \in DOMAIN sessions : sessions[s].op = "book_service"
                                         /\ sessions[s].pc # "done"})

\* the response of a finished request
Done(r, resp) == [r EXCEPT !.pc = "done", !.resp = resp]

\* faulty variant of BookServiceWindow: the window test is answered only
\* after the lock step
BookServiceWindowUnderLock(r) ==
    LET svc == hospital_services[r.service_id]
        date_part == IF svc.ambulance \/ r.scheduled_at = NoSched
                     THEN DateOf(now) ELSE r.scheduled_at[1]
        time_part == IF svc.ambulance THEN TimeOf(now)
                     ELSE IF r.scheduled_at = NoSched THEN NoTime
                     ELSE r.scheduled_at[2]
        tmin == hhmm_to_min(time_part)
        wmin == hhmm_to_min(svc.window_start_time)
        emin == hhmm_to_min(svc.window_end_time)
        outside == /\ ~svc.ambulance
                   /\ svc.window_start_time # NoTime
                   /\ svc.window_end_time # NoTime
                   /\ time_part # NoTime
                   /\ tmin # NoMin /\ wmin # NoMin /\ emin # NoMin
                   /\ (tmin < wmin \/ tmin > emin)
    IN  [r EXCEPT !.pc = "get_lock", !.date_part = date_part,
                  !.time_part = time_part,
                  !.resp = IF outside THEN "outside_window" ELSE ""]

\* views.py:1358-1404: date_part and time_part of the request, then the
\* strict window test of a non-ambulance service whose window is defined
BookServiceWindow(r) ==
    LET svc == hospital_services[r.service_id]
        date_part == IF svc.ambulance \/ r.scheduled_at = NoSched
                     THEN DateOf(now) ELSE r.scheduled_at[1]
        time_part == IF svc.ambulance THEN TimeOf(now)
                     ELSE IF r.scheduled_at = NoSched THEN NoTime
                     ELSE r.scheduled_at[2]
        tmin == hhmm_to_min(time_part)
        wmin == hhmm_to_min(svc.window_start_time)
        emin == hhmm_to_min(svc.window_end_time)
        outside == /\ ~svc.ambulance
                   /\ svc.window_start_time # NoTime
                   /\ svc.window_end_time # NoTime
                   /\ time_part # NoTime
                   /\ tmin # NoMin /\ wmin # NoMin /\ emin # NoMin
                   /\ (tmin < wmin \/ tmin > emin)
    IN  IF outside THEN Done(r, "outside_window")
        ELSE [r EXCEPT !.pc = "get_lock", !.date_part = date_part,
                       !.time_part = time_part]

\* views.py:1261-1336 (and, with no daily limit, on to 1404): the request
\* arrives, the crisis (if any) must be open, the service row is read and
\* checked, a crisis-linked request for beds needs a free bed, and the
\* requester's booked rows of that service and day are counted (one per day)
BookService_Begin(s, user, service_id, hospital_user_id, scheduled_at, crisis_id) ==
    /\ sessions[s].pc = "idle"
    /\ LET known == /\ service_id \in DOMAIN hospital_services
                    /\ hospital_services[service_id].hospital_user_id
                         = hospital_user_id
           svc == hospital_services[service_id]
           effective_day == IF ~known THEN 0
                            ELSE IF svc.ambulance \/ scheduled_at = NoSched
                            THEN DateOf(now) ELSE scheduled_at[1]
           r == [op |-> "book_service", pc |-> "begin", user |-> user,
                 service_id |-> service_id,
                 hospital_user_id |-> hospital_user_id,
                 scheduled_at |-> scheduled_at, crisis_id |-> crisis_id,
                 effective_day |-> effective_day, date_part |-> 0,
                 time_part |-> NoTime, locked |-> FALSE, timed_out |-> FALSE,
                 serial |-> 0, approx_time_str |-> NoTime,
                 scheduled_to_save |-> 0, bid |-> 0, resp |-> ""]
       IN  sessions' = [sessions EXCEPT ![s] =
             IF crisis_id # 0 /\ ~RequireCrisisOpen(crisis_id)
             THEN Done(r, "crisis_closed")
             ELSE IF service_id = 0 \/ hospital_user_id = 0
             THEN Done(r, "missing_fields")
             ELSE IF ~known THEN Done(r, "service_not_found")
             ELSE IF svc.available # 1 THEN Done(r, "service_unavailable")
             ELSE IF TakesBed(crisis_id, service_id) /\ available_beds <= 0
             THEN Done(r, "no_beds")
             ELSE IF CountBookedUser(user, service_id, effective_day) > 0
             THEN Done(r, "one_per_day")
             ELSE IF svc.max_per_day > 0 THEN [r EXCEPT !.pc = "capacity"]
             ELSE BookServiceWindow(r)]
    /\ UNCHANGED <<now, service_bookings, appointments, named_locks,
                   notifications, alloc, available_beds>>

\* views.py:1337-1404: the day's booked rows are counted against
\* max_per_day, before the lock is requested
BookService_Capacity(s) ==
    /\ sessions[s].op = "book_service" /\ sessions[s].pc = "capacity"
    /\ LET r == sessions[s]
           mpd == hospital_services[r.service_id].max_per_day
       IN  sessions' = [sessions EXCEPT ![s] =
             IF CountBooked(r.service_id, r.effective_day) >= mpd
             THEN Done(r, "full")
             ELSE BookServiceWindow(r)]
    /\ UNCHANGED <<now, service_bookings, appointments, named_locks,
                   notifications, alloc, available_beds>>

\* views.py:1406-1411: SELECT GET_LOCK(lock_key, 10) answers 1: the lock
\* was free and now belongs to this connection
BookService_GetLock(s) ==
    /\ sessions[s].op = "book_service" /\ sessions[s].pc = "get_lock"
    /\ LET r == sessions[s]
           key == SvcLockKey(r.service_id, r.date_part)
       IN  /\ LockHolder(key) = 0
           /\ named_locks' = named_locks \cup {[key |-> key, holder |-> s]}
           /\ sessions' = [sessions EXCEPT ![s] =
                [r EXCEPT !.pc = "day_total", !.locked = TRUE]]
    /\ UNCHANGED <<now, service_bookings, appointments, notifications, alloc,
                   available_beds>>

\* faulty variant of BookService_LockTimeout: GET_LOCK waits for the lock
\* without a timeout
BookService_LockWaitsForever(s) ==
    /\ sessions[s].op = "book_service" /\ sessions[s].pc = "get_lock"
    /\ LockHolder(SvcLockKey(sessions[s].service_id,
                             sessions[s].date_part)) = s
    /\ UNCHANGED vars

\* views.py:1410-1413: GET_LOCK answers 0 after waiting 10 seconds for a
\* lock another connection holds; locked stays False and the handler goes on
BookService_LockTimeout(s) ==
    /\ sessions[s].op = "book_service" /\ sessions[s].pc = "get_lock"
    /\ LET r == sessions[s]
           key == SvcLockKey(r.service_id, r.date_part)
       IN  /\ LockHolder(key) \notin {0, s}
           /\ sessions' = [sessions EXCEPT ![s] =
                [r EXCEPT !.pc = "day_total", !.timed_out = TRUE]]
    /\ UNCHANGED <<now, service_bookings, appointments, named_locks,
                   notifications, alloc, available_beds>>

\* views.py:1415-1426: serial = the day's booked rows + 1
BookService_DayTotal(s) ==
    /\ sessions[s].op = "book_service" /\ sessions[s].pc = "day_total"
    /\ LET r == sessions[s]
       IN  sessions' = [sessions EXCEPT ![s] =
             [r EXCEPT !.pc = "allocate",
                       !.serial = CountBooked(r.service_id, r.date_part) + 1]]
    /\ UNCHANGED <<now, service_bookings, appointments, named_locks,
                   notifications, alloc, available_beds>>

\* views.py:1428-1510: the taken times of the day are read; an ambulance
\* gets now + 15 minutes, any other service the nearest free slot, or
\* 'full' when the search finds none (a desired time that does not parse
\* raises instead); each way the finally clause comes next
BookService_Allocate(s) ==
    /\ sessions[s].op = "book_service" /\ sessions[s].pc = "allocate"
    /\ LET r == sessions[s]
           svc == hospital_services[r.service_id]
           taken == TakenTimes(r.service_id, r.date_part)
           eta == now + AmbulanceLeadMinutes * 60
           found == NearestSlot(r.time_part, svc.window_start_time,
                                svc.window_end_time, svc.duration_minutes,
                                taken)
       IN  sessions' = [sessions EXCEPT ![s] =
             IF svc.ambulance
             THEN [r EXCEPT !.pc = "release", !.approx_time_str = TimeOf(eta),
                            !.scheduled_to_save = eta]
             ELSE IF DesiredMin(r.time_part, svc.window_start_time,
                                svc.window_end_time) = NoMin
             THEN [r EXCEPT !.pc = "release", !.resp = "server_error"]
             ELSE IF found = NoTime
             THEN [r EXCEPT !.pc = "release", !.resp = "full"]
             ELSE [r EXCEPT !.pc = "release", !.approx_time_str = found,
                            !.scheduled_to_save = Timestamp(r.date_part, found)]]
    /\ UNCHANGED <<now, service_bookings, appointments, named_locks,
                   notifications, alloc, available_beds>>

\* views.py:1511-1516: finally: SELECT RELEASE_LOCK(lock_key), which frees
\* the lock only if this connection holds it; a 'full' or raised request
\* ends here, every other one goes on to the INSERT
BookService_Release(s) ==
    /\ sessions[s].op = "book_service" /\ sessions[s].pc = "release"
    /\ LET r == sessions[s]
           key == SvcLockKey(r.service_id, r.date_part)
       IN  /\ named_locks' = named_locks \ {[key |-> key, holder |-> s]}
           /\ sessions' = [sessions EXCEPT ![s] =
                IF r.resp # "" THEN [r EXCEPT !.pc = "done"]
                ELSE [r EXCEPT !.pc = "insert"]]
    /\ UNCHANGED <<now, service_bookings, appointments, notifications, alloc,
                   available_beds>>

\* views.py:1518-1519: INSERT INTO service_bookings(...,'booked',serial,...)
BookService_Insert(s) ==
    /\ sessions[s].op = "book_service" /\ sessions[s].pc = "insert"
    /\ LET r == sessions[s]
       IN  /\ service_bookings' = Append(service_bookings,
                [user_id |-> r.user, hospital_user_id |-> r.hospital_user_id,
                 service_id |-> r.service_id,
                 scheduled_at |-> r.scheduled_to_save,
                 status |-> InitialStatus,
                 serial |-> r.serial, approx_time |-> r.approx_time_str,
                 crisis_id |-> r.crisis_id])
           /\ sessions' = [sessions EXCEPT ![s] =
                [r EXCEPT !.pc = "notify",
                          !.bid = Len(service_bookings) + 1]]
    /\ UNCHANGED <<now, appointments, named_locks, notifications, alloc,
                   available_beds>>

\* views.py:1523-1579: the hospital owner and the requester are notified
\* and the handler answers {id, serial, approx_time, scheduled_at}
BookService_Notify(s) ==
    /\ sessions[s].op = "book_service" /\ sessions[s].pc = "notify"
    /\ LET r == sessions[s]
       IN  /\ notifications' = notifications \cup
                {[user_id |-> r.hospital_user_id, type |-> "service_booked",
                  id |-> r.bid],
                 [user_id |-> r.user, type |-> "service_booking_confirmed",
                  id |-> r.bid]}
           /\ sessions' = [sessions EXCEPT ![s] = Done(r, "ok")]
    /\ UNCHANGED <<now, service_bookings, appointments, named_locks, alloc,
                   available_beds>>

\* the response has been sent: the worker is free for the next request
SessionReturn(s) ==
    /\ sessions[s].pc = "done"
    /\ sessions' = [sessions EXCEPT ![s] = Idle]
    /\ UNCHANGED <<now, service_bookings, appointments, named_locks,
                   notifications, alloc, available_beds>>

(***************************************************************************)
(* Lifecycle of a service booking (views.py:1632-1779)                     *)
(***************************************************************************)

\* users.role of the accounts of the model: 10 is the hospital that owns
\* the services, every other account is a regular user
RoleOf(user_id) == IF user_id = 10 THEN "hospital" ELSE "regular"

\* a lifecycle request on one service booking, as it arrives
LifecycleRequest(op, user, booking_id) ==
    [op |-> op, pc |-> "begin", user |-> user, booking_id |-> booking_id,
     now |-> 0, resp |-> ""]

\* views.py:1633-1649 request_cancel_service_booking: the row is read; only
\* its requester may cancel, only while it is 'booked', and only when
\* scheduled_at is at least 2 hours after utcnow()
RequestCancelService_Select(s, user, booking_id) ==
    /\ sessions[s].pc = "idle"
    /\ LET r == [LifecycleRequest("request_cancel_service_booking", user,
                                  booking_id) EXCEPT !.now = now]
           sb == service_bookings[booking_id]
       IN  sessions' = [sessions EXCEPT ![s] =
             IF booking_id \notin Ids(service_bookings)
             THEN Done(r, "not_found")
             ELSE IF sb.user_id # user THEN Done(r, "forbidden")
             ELSE IF sb.status # "booked" THEN Done(r, "invalid_status")
             ELSE IF TooLate(sb.scheduled_at, r.now)
             THEN Done(r, "too_late_to_cancel")
             ELSE [r EXCEPT !.pc = "update"]]
    /\ UNCHANGED <<now, service_bookings, appointments, named_locks,
                   notifications, alloc, available_beds>>

\* views.py:1650: UPDATE service_bookings SET status='cancelled'
\* WHERE id=%s AND user_id=%s AND status='booked'
RequestCancelService_Update(s) ==
    /\ sessions[s].op = "request_cancel_service_booking"
    /\ sessions[s].pc = "update"
    /\ LET r == sessions[s]
           sb == service_bookings[r.booking_id]
       IN  /\ service_bookings' =
                IF sb.user_id = r.user
                THEN UpdateStatus(service_bookings, r.booking_id, "booked",
                                  "cancelled")
                ELSE service_bookings
           /\ sessions' = [sessions EXCEPT ![s] = [r EXCEPT !.pc = "notify"]]
    /\ UNCHANGED <<now, appointments, named_locks, notifications, alloc,
                   available_beds>>

\* views.py:1652-1661: both parties are notified; {'ok': True,
\* 'status': 'cancelled'} is answered
RequestCancelService_Notify(s) ==
    /\ sessions[s].op = "request_cancel_service_booking"
    /\ sessions[s].pc = "notify"
    /\ LET r == sessions[s]
           sb == service_bookings[r.booking_id]
       IN  /\ notifications' = notifications \cup
                {[user_id |-> sb.hospital_user_id,
                  type |-> "service_booking_cancelled", id |-> r.booking_id],
                 [user_id |-> r.user,
                  type |-> "service_booking_cancelled", id |-> r.booking_id]}
           /\ sessions' = [sessions EXCEPT ![s] = Done(r, "ok")]
    /\ UNCHANGED <<now, service_bookings, appointments, named_locks, alloc,
                   available_beds>>

\* views.py:1676-1683 and 1741-1748: confirm_service_booking and
\* decline_service_booking read the row; only an admin or the owning
\* hospital may act, and only while the row is 'booked'
HospitalDecision_Select(s, op, user, booking_id) ==
    /\ sessions[s].pc = "idle"
    /\ op \in {"confirm_service_booking", "decline_service_booking"}
    /\ LET r == LifecycleRequest(op, user, booking_id)
           sb == service_bookings[booking_id]
       IN  sessions' = [sessions EXCEPT ![s] =
             IF booking_id \notin Ids(service_bookings)
             THEN Done(r, "not_found")
             ELSE IF ~(RoleOf(user) = "admin"
                       \/ (RoleOf(user) = "hospital"
                           /\ sb.hospital_user_id = user))
             THEN Done(r, "forbidden")
             ELSE IF sb.status # "booked" THEN Done(r, "invalid_status")
             ELSE IF op = "confirm_service_booking" /\ sb.crisis_id # 0
                     /\ ~RequireCrisisOpen(sb.crisis_id)
             THEN Done(r, "crisis_closed")
             ELSE IF op = "confirm_service_booking"
                     /\ TakesBed(sb.crisis_id, sb.service_id)
             THEN [r EXCEPT !.pc = "beds"]
             ELSE [r EXCEPT !.pc = "update"]]
    /\ UNCHANGED <<now, service_bookings, appointments, named_locks,
                   notifications, alloc, available_beds>>

\* views.py:1694-1703: confirming a crisis-linked booking of beds reads the
\* incident's row; with no bed left the answer is no_beds
ConfirmService_ReadBeds(s) ==
    /\ sessions[s].op = "confirm_service_booking"
    /\ sessions[s].pc = "beds"
    /\ sessions' = [sessions EXCEPT ![s] =
         IF available_beds <= 0 THEN Done(sessions[s], "no_beds")
         ELSE [sessions[s] EXCEPT !.pc = "decrement"]]
    /\ UNCHANGED <<now, service_bookings, appointments, named_locks,
                   notifications, alloc, available_beds>>

\* views.py:1704-1711: UPDATE incident_hospital_resources SET
\* available_beds = <one less, not below 0> WHERE id=%s
ConfirmService_DecrementBeds(s) ==
    /\ sessions[s].op = "confirm_service_booking"
    /\ sessions[s].pc = "decrement"
    /\ available_beds' = DecrementBeds(available_beds)
    /\ sessions' = [sessions EXCEPT ![s] = [sessions[s] EXCEPT !.pc = "update"]]
    /\ UNCHANGED <<now, service_bookings, appointments, named_locks,
                   notifications, alloc>>

\* views.py:1715: UPDATE service_bookings SET status='confirmed'
\* WHERE id=%s AND status='booked'
ConfirmService_Update(s) ==
    /\ sessions[s].op = "confirm_service_booking"
    /\ sessions[s].pc = "update"
    /\ LET r == sessions[s]
       IN  /\ service_bookings' = UpdateStatus(service_bookings, r.booking_id,
                                               "booked", "confirmed")
           /\ sessions' = [sessions EXCEPT ![s] = [r EXCEPT !.pc = "notify"]]
    /\ UNCHANGED <<now, appointments, named_locks, notifications, alloc,
                   available_beds>>

\* views.py:1718-1734: the requester is notified; {'ok': True,
\* 'status': 'confirmed'} is answered
ConfirmService_Notify(s) ==
    /\ sessions[s].op = "confirm_service_booking"
    /\ sessions[s].pc = "notify"
    /\ LET r == sessions[s]
           sb == service_bookings[r.booking_id]
       IN  /\ notifications' = notifications \cup
                {[user_id |-> sb.user_id,
                  type |-> "service_booking_confirmed_by_hospital",
                  id |-> r.booking_id]}
           /\ sessions' = [sessions EXCEPT ![s] = Done(r, "ok")]
    /\ UNCHANGED <<now, service_bookings, appointments, named_locks, alloc,
                   available_beds>>

\* faulty variant of DeclineService_Update: declining gives a bed back
DeclineService_UpdateGivesBedBack(s) ==
    /\ sessions[s].op = "decline_service_booking"
    /\ sessions[s].pc = "update"
    /\ LET r == sessions[s]
       IN  /\ service_bookings' = UpdateStatus(service_bookings, r.booking_id,
                                               "booked", "declined")
           /\ sessions' = [sessions EXCEPT ![s] = [r EXCEPT !.pc = "notify"]]
    /\ available_beds' = available_beds + 1
    /\ UNCHANGED <<now, appointments, named_locks, notifications, alloc>>

\* views.py:1750-1759: UPDATE service_bookings SET status='declined'
\* WHERE id=%s AND status='booked'; after it, for a crisis-linked row,
\* _require_crisis_open is asked and its error is returned
DeclineService_Update(s) ==
    /\ sessions[s].op = "decline_service_booking"
    /\ sessions[s].pc = "update"
    /\ LET r == sessions[s]
           sb == service_bookings[r.booking_id]
       IN  /\ service_bookings' = UpdateStatus(service_bookings, r.booking_id,
                                               "booked", "declined")
           /\ sessions' = [sessions EXCEPT ![s] =
                IF sb.crisis_id # 0 /\ ~RequireCrisisOpen(sb.crisis_id)
                THEN Done(r, "crisis_closed")
                ELSE [r EXCEPT !.pc = "notify"]]
    /\ UNCHANGED <<now, appointments, named_locks, notifications, alloc,
                   available_beds>>

\* views.py:1770-1779: both parties are notified; {'ok': True,
\* 'status': 'declined'} is answered
DeclineService_Notify(s) ==
    /\ sessions[s].op = "decline_service_booking"
    /\ sessions[s].pc = "notify"
    /\ LET r == sessions[s]
           sb == service_bookings[r.booking_id]
       IN  /\ notifications' = notifications \cup
                {[user_id |-> sb.user_id,
                  type |-> "service_booking_declined", id |-> r.booking_id],
                 [user_id |-> sb.hospital_user_id,
                  type |-> "service_booking_declined", id |-> r.booking_id]}
           /\ sessions' = [sessions EXCEPT ![s] = Done(r, "ok")]
    /\ UNCHANGED <<now, service_bookings, appointments, named_locks, alloc,
                   available_beds>>

(***************************************************************************)
(* book_appointment (views.py:2257-2417)                                   *)
(***************************************************************************)

\* table hospital_doctors: doctor 20 works at hospital 10
hospital_doctors == {[hospital_user_id |-> 10, doctor_user_id |-> 20]}

\* table doctor_schedules, in the order of the query (start_time ASC):
\* doctor 20 at hospital 10 publishes two blocks on weekday 5
doctor_schedules ==
    <<[doctor_user_id |-> 20, hospital_user_id |-> 10, weekday |-> 5,
       start_time |-> <<9, 0>>, end_time |-> <<10, 0>>, max_per_day |-> 1],
      [doctor_user_id |-> 20, hospital_user_id |-> 10, weekday |-> 5,
       start_time |-> <<10, 0>>, end_time |-> <<11, 0>>, max_per_day |-> 1]>>

\* views.py:2281-2283 dt.weekday() (Monday = 0; day 0 is Thursday
\* 1970-01-01), shifted to the API's Sunday = 0
WeekdayOf(day) == (((day + 3) % 7) + 1) % 7

\* views.py:2288-2291: the blocks of the pair on that weekday
SchedulesOf(doctor_id, hospital_id, weekday) ==
    SelectSeq(doctor_schedules,
              LAMBDA b : /\ b.doctor_user_id = doctor_id
                         /\ b.hospital_user_id = hospital_id
                         /\ b.weekday = weekday)

RECURSIVE SumMaxPerDay(_)
\* views.py:2325 sum(int(x.get('max_per_day') or 0) for x in schedules)
SumMaxPerDay(schedules) ==
    IF schedules = <<>> THEN 0
    ELSE Head(schedules).max_per_day + SumMaxPerDay(Tail(schedules))

\* views.py:2314-2320: the requested times lie inside one published block
\* ('HH:MM' texts of equal shape compare as their minutes do)
InsideBlock(schedules, st_hm, en_hm) ==
    \E k \in 1 .. Len(schedules) :
        /\ hhmm_to_min(schedules[k].start_time) <= hhmm_to_min(st_hm)
        /\ hhmm_to_min(en_hm) <= hhmm_to_min(schedules[k].end_time)

\* the rows of a doctor/hospital pair whose starts_at lies between
\* day 00:00:00 and day 23:59:59 (views.py:2329-2330, 2354)
DayAppointments(doctor_id, hospital_id, day) ==
    {i \in Ids(appointments) :
        /\ appointments[i].doctor_user_id = doctor_id
        /\ appointments[i].hospital_user_id = hospital_id
        /\ DateOf(appointments[i].starts_at) = day}

\* views.py:2354 SELECT COUNT(*) c FROM appointments WHERE doctor_user_id=%s
\* AND hospital_user_id=%s AND starts_at BETWEEN %s AND %s
DayCount(doctor_id, hospital_id, day) ==
    Cardinality(DayAppointments(doctor_id, hospital_id, day))

\* views.py:2332-2335: the patient already has a row with this pair on the
\* day, whatever its status
ExistingSameDay(user, doctor_id, hospital_id, day) ==
    \E i \in DayAppointments(doctor_id, hospital_id, day) :
        appointments[i].patient_user_id = user

\* views.py:2344 lock_key = f"appointments:{doctor_id}:{hospital_id}:{day}"
ApptLockKey(doctor_id, hospital_id, day) ==
    <<"appointments", doctor_id, hospital_id, day>>

\* settings' database ENGINE (views.py:2343): the lock is used on MySQL only
engine == "mysql"

\* book_appointment requests that may still insert a row
PendingBookAppointment ==
    Cardinality({s \in DOMAIN sessions : sessions[s].op = "book_appointment"
                                         /\ sessions[s].pc # "done"})

\* views.py:2258-2337: the request arrives and is validated against
\* membership and the weekday's blocks; then the patient's rows with this
\* pair on the day are looked up (one per day)
BookAppointment_Begin(s, user, doctor_id, hospital_id, starts_at, ends_at) ==
    /\ sessions[s].pc = "idle"
    /\ LET missing == doctor_id = 0 \/ hospital_id = 0 \/ starts_at = NoSched
                      \/ ends_at = NoSched
           day == IF starts_at = NoSched THEN 0 ELSE starts_at[1]
           schedules == SchedulesOf(doctor_id, hospital_id, WeekdayOf(day))
           st_hm == starts_at[2]
           en_hm == ends_at[2]
           r == [op |-> "book_appointment", pc |-> "begin", user |-> user,
                 doctor_id |-> doctor_id, hospital_id |-> hospital_id,
                 starts_at |-> starts_at, ends_at |-> ends_at, day |-> day,
                 max_per_day |-> 0, got_lock |-> FALSE, timed_out |-> FALSE,
                 serial |-> 0, approx_time |-> NoTime, appt_id |-> 0,
                 resp |-> ""]
       IN  sessions' = [sessions EXCEPT ![s] =
             IF missing THEN Done(r, "missing_fields")
             ELSE IF [hospital_user_id |-> hospital_id,
                      doctor_user_id |-> doctor_id] \notin hospital_doctors
             THEN Done(r, "not_member")
             ELSE IF schedules = <<>> THEN Done(r, "no_schedule")
             ELSE IF hhmm_to_min(st_hm) = NoMin \/ hhmm_to_min(en_hm) = NoMin
             THEN Done(r, "invalid_time")
             ELSE IF hhmm_to_min(st_hm) >= hhmm_to_min(en_hm)
             THEN Done(r, "invalid_range")
             ELSE IF ~InsideBlock(schedules, st_hm, en_hm)
             THEN Done(r, "outside_schedule")
             ELSE IF ExistingSameDay(user, doctor_id, hospital_id, day)
             THEN Done(r, "already_booked_same_day")
             ELSE [r EXCEPT !.pc = "get_lock",
                            !.max_per_day = SumMaxPerDay(schedules)]]
    /\ UNCHANGED <<now, service_bookings, appointments, named_locks,
                   notifications, alloc, available_beds>>

\* views.py:2346-2350: on MySQL, SELECT GET_LOCK(lock_key, 10) answers 1
BookAppointment_GetLock(s) ==
    /\ sessions[s].op = "book_appointment" /\ sessions[s].pc = "get_lock"
    /\ engine = "mysql"
    /\ LET r == sessions[s]
           key == ApptLockKey(r.doctor_id, r.hospital_id, r.day)
       IN  /\ LockHolder(key) = 0
           /\ named_locks' = named_locks \cup {[key |-> key, holder |-> s]}
           /\ sessions' = [sessions EXCEPT ![s] =
                [r EXCEPT !.pc = "day_count", !.got_lock = TRUE]]
    /\ UNCHANGED <<now, service_bookings, appointments, notifications, alloc,
                   available_beds>>

\* views.py:2349-2353: GET_LOCK answers 0 after 10 seconds of waiting for a
\* lock another connection holds; got_lock stays False and the handler
\* goes on "best-effort without it"
BookAppointment_LockTimeout(s) ==
    /\ sessions[s].op = "book_appointment" /\ sessions[s].pc = "get_lock"
    /\ engine = "mysql"
    /\ LET r == sessions[s]
           key == ApptLockKey(r.doctor_id, r.hospital_id, r.day)
       IN  /\ LockHolder(key) \notin {0, s}
           /\ sessions' = [sessions EXCEPT ![s] =
                [r EXCEPT !.pc = "day_count", !.timed_out = TRUE]]
    /\ UNCHANGED <<now, service_bookings, appointments, named_locks,
                   notifications, alloc, available_beds>>

\* views.py:2361-2376: the approximate start, the first block's start plus
\* (serial - 1) visits of the requested length (at least one minute)
ApproxTime(schedules, starts_at, ends_at, serial) ==
    LET st == Timestamp(starts_at[1], starts_at[2])
        en == Timestamp(ends_at[1], ends_at[2])
        mins == Max(1, (en - st) \div 60)
        base == Timestamp(starts_at[1], schedules[1].start_time)
    IN  TimeOf(base + (serial - 1) * mins * 60)

\* faulty variant of AfterBody: a return or an exception inside the try
\* block leaves without the finally clause
AfterBodyWithoutFinally(r, next) ==
    IF r.resp # "" THEN [r EXCEPT !.pc = "done"]
    ELSE IF r.got_lock /\ engine = "mysql" THEN [r EXCEPT !.pc = "release"]
    ELSE [r EXCEPT !.pc = next]

\* the step after the try block's body: the finally clause releases the
\* lock only when it was acquired (views.py:2381-2386)
AfterBody(r, next) ==
    IF r.got_lock /\ engine = "mysql" THEN [r EXCEPT !.pc = "release"]
    ELSE IF r.resp # "" THEN [r EXCEPT !.pc = "done"]
    ELSE [r EXCEPT !.pc = next]

\* views.py:2353-2378: the day's rows of the pair are counted, whatever
\* their status; at the limit the answer is capacity_full, else the serial
\* is the count + 1
BookAppointment_DayCount(s) ==
    /\ sessions[s].op = "book_appointment" /\ sessions[s].pc = "day_count"
    /\ LET r == sessions[s]
           c == DayCount(r.doctor_id, r.hospital_id, r.day)
           schedules == SchedulesOf(r.doctor_id, r.hospital_id,
                                    WeekdayOf(r.day))
       IN  sessions' = [sessions EXCEPT ![s] =
             IF r.max_per_day # 0 /\ c >= r.max_per_day
             THEN AfterBody([r EXCEPT !.resp = "capacity_full"], "done")
             ELSE [r EXCEPT !.pc = "insert", !.serial = c + 1,
                            !.approx_time = ApproxTime(schedules, r.starts_at,
                                                       r.ends_at, c + 1)]]
    /\ UNCHANGED <<now, service_bookings, appointments, named_locks,
                   notifications, alloc, available_beds>>

\* views.py:2380: INSERT INTO appointments(...,'booked',serial,approx_time)
BookAppointment_Insert(s) ==
    /\ sessions[s].op = "book_appointment" /\ sessions[s].pc = "insert"
    /\ LET r == sessions[s]
       IN  /\ appointments' = Append(appointments,
                [patient_user_id |-> r.user, doctor_user_id |-> r.doctor_id,
                 hospital_user_id |-> r.hospital_id,
                 starts_at |-> Timestamp(r.starts_at[1], r.starts_at[2]),
                 ends_at |-> Timestamp(r.ends_at[1], r.ends_at[2]),
                 status |-> InitialStatus, serial |-> r.serial,
                 approx_time |-> r.approx_time])
           /\ sessions' = [sessions EXCEPT ![s] =
                AfterBody([r EXCEPT !.appt_id = Len(appointments) + 1],
                          "notify")]
    /\ UNCHANGED <<now, service_bookings, named_locks, notifications, alloc,
                   available_beds>>

\* views.py:2380-2386: the INSERT raises (the database refuses or loses the
\* statement): no row is written, the finally clause runs and the
\* exception leaves the handler
BookAppointment_InsertFails(s) ==
    /\ sessions[s].op = "book_appointment" /\ sessions[s].pc = "insert"
    /\ sessions' = [sessions EXCEPT ![s] =
         AfterBody([sessions[s] EXCEPT !.resp = "server_error"], "done")]
    /\ UNCHANGED <<now, service_bookings, appointments, named_locks,
                   notifications, alloc, available_beds>>

\* views.py:2381-2386: finally: SELECT RELEASE_LOCK(lock_key)
BookAppointment_Release(s) ==
    /\ sessions[s].op = "book_appointment" /\ sessions[s].pc = "release"
    /\ LET r == sessions[s]
           key == ApptLockKey(r.doctor_id, r.hospital_id, r.day)
       IN  /\ named_locks' = named_locks \ {[key |-> key, holder |-> s]}
           /\ sessions' = [sessions EXCEPT ![s] =
                IF r.resp # "" THEN [r EXCEPT !.pc = "done"]
                ELSE [r EXCEPT !.pc = "notify"]]
    /\ UNCHANGED <<now, service_bookings, appointments, notifications, alloc,
                   available_beds>>

\* views.py:2387-2417: the doctor is notified; {id, serial, approx_time} is
\* answered
BookAppointment_Notify(s) ==
    /\ sessions[s].op = "book_appointment" /\ sessions[s].pc = "notify"
    /\ LET r == sessions[s]
       IN  /\ notifications' = notifications \cup
                {[user_id |-> r.doctor_id, type |-> "appointment_booked",
                  id |-> r.appt_id]}
           /\ sessions' = [sessions EXCEPT ![s] = Done(r, "ok")]
    /\ UNCHANGED <<now, service_bookings, appointments, named_locks, alloc,
                   available_beds>>

(***************************************************************************)
(* Lifecycle of an appointment (views.py:2444-2667)                        *)
(***************************************************************************)

\* the status a doctor's decision requires of the row
\* (views.py:2547, 2643, 2660)
RequiredStatus(op) ==
    IF op = "confirm_appointment" THEN "booked" ELSE "cancel_requested"

\* faulty variant of TargetStatus: confirm_appointment writes 'confirmed'
TargetStatusConfirmed(op) ==
    IF op = "confirm_appointment" THEN "confirmed"
    ELSE IF op = "approve_cancel_appointment" THEN "cancelled"
    ELSE "booked"

\* the status a doctor's decision writes (views.py:2549, 2645, 2662)
TargetStatus(op) ==
    IF op = "confirm_appointment" THEN "done"
    ELSE IF op = "approve_cancel_appointment" THEN "cancelled"
    ELSE "booked"

\* the notification a doctor's decision sends to the patient
\* (views.py:2551, 2647, 2664)
DecisionNotice(op) ==
    IF op = "confirm_appointment" THEN "appointment_completed"
    ELSE IF op = "approve_cancel_appointment" THEN "appointment_cancel_approved"
    ELSE "appointment_cancel_declined"

\* views.py:2542-2548, 2638-2644, 2655-2661: confirm_appointment,
\* approve_cancel_appointment and decline_cancel_appointment read the row;
\* only its doctor may act, and only in the status the operation requires
DoctorDecision_Select(s, op, user, appointment_id) ==
    /\ sessions[s].pc = "idle"
    /\ op \in {"confirm_appointment", "approve_cancel_appointment",
               "decline_cancel_appointment"}
    /\ LET r == LifecycleRequest(op, user, appointment_id)
           ap == appointments[appointment_id]
       IN  sessions' = [sessions EXCEPT ![s] =
             IF appointment_id \notin Ids(appointments)
             THEN Done(r, "not_found")
             ELSE IF ap.doctor_user_id # user THEN Done(r, "forbidden")
             ELSE IF ap.status # RequiredStatus(op)
             THEN Done(r, "invalid_status")
             ELSE [r EXCEPT !.pc = "update"]]
    /\ UNCHANGED <<now, service_bookings, appointments, named_locks,
                   notifications, alloc, available_beds>>

\* views.py:2549, 2645, 2662: UPDATE appointments SET status=... WHERE id=%s
\* AND doctor_user_id=%s AND status=<the required status>
DoctorDecision_Update(s) ==
    /\ sessions[s].op \in {"confirm_appointment", "approve_cancel_appointment",
                           "decline_cancel_appointment"}
    /\ sessions[s].pc = "update"
    /\ LET r == sessions[s]
       IN  /\ appointments' = UpdateStatus(appointments, r.booking_id,
                                           RequiredStatus(r.op),
                                           TargetStatus(r.op))
           /\ sessions' = [sessions EXCEPT ![s] = [r EXCEPT !.pc = "notify"]]
    /\ UNCHANGED <<now, service_bookings, named_locks, notifications, alloc,
                   available_beds>>

\* views.py:2550-2554, 2646-2650, 2663-2667: the patient is notified and
\* {'ok': True, 'status': ...} is answered
DoctorDecision_Notify(s) ==
    /\ sessions[s].op \in {"confirm_appointment", "approve_cancel_appointment",
                           "decline_cancel_appointment"}
    /\ sessions[s].pc = "notify"
    /\ LET r == sessions[s]
           ap == appointments[r.booking_id]
       IN  /\ notifications' = notifications \cup
                {[user_id |-> ap.patient_user_id, type |-> DecisionNotice(r.op),
                  id |-> r.booking_id]}
           /\ sessions' = [sessions EXCEPT ![s] = Done(r, "ok")]
    /\ UNCHANGED <<now, service_bookings, appointments, named_locks, alloc,
                   available_beds>>

\* views.py:2586-2602 request_cancel_appointment: the row is read; only its
\* patient may ask, only while it is 'booked', and only when starts_at is at
\* least 2 hours after utcnow()
RequestCancelAppointment_Select(s, user, appointment_id) ==
    /\ sessions[s].pc = "idle"
    /\ LET r == [LifecycleRequest("request_cancel_appointment", user,
                                  appointment_id) EXCEPT !.now = now]
           ap == appointments[appointment_id]
       IN  sessions' = [sessions EXCEPT ![s] =
             IF appointment_id \notin Ids(appointments)
             THEN Done(r, "not_found")
             ELSE IF ap.patient_user_id # user THEN Done(r, "forbidden")
             ELSE IF ap.status # "booked" THEN Done(r, "invalid_status")
             ELSE IF TooLate(ap.starts_at, r.now)
             THEN Done(r, "too_late_to_cancel")
             ELSE [r EXCEPT !.pc = "update"]]
    /\ UNCHANGED <<now, service_bookings, appointments, named_locks,
                   notifications, alloc, available_beds>>

\* views.py:2603: UPDATE appointments SET status='cancel_requested'
\* WHERE id=%s AND patient_user_id=%s AND status='booked'
RequestCancelAppointment_Update(s) ==
    /\ sessions[s].op = "request_cancel_appointment"
    /\ sessions[s].pc = "update"
    /\ LET r == sessions[s]
       IN  /\ appointments' = UpdateStatus(appointments, r.booking_id,
                                           "booked", "cancel_requested")
           /\ sessions' = [sessions EXCEPT ![s] = [r EXCEPT !.pc = "notify"]]
    /\ UNCHANGED <<now, service_bookings, named_locks, notifications, alloc,
                   available_beds>>

\* views.py:2604-2633: the doctor is notified; {'ok': True,
\* 'status': 'cancel_requested'} is answered
RequestCancelAppointment_Notify(s) ==
    /\ sessions[s].op = "request_cancel_appointment"
    /\ sessions[s].pc = "notify"
    /\ LET r == sessions[s]
           ap == appointments[r.booking_id]
       IN  /\ notifications' = notifications \cup
                {[user_id |-> ap.doctor_user_id,
                  type |-> "appointment_cancel_requested",
                  id |-> r.booking_id]}
           /\ sessions' = [sessions EXCEPT ![s] = Done(r, "ok")]
    /\ UNCHANGED <<now, service_bookings, appointments, named_locks, alloc,
                   available_beds>>

\* SELECT MAX(end_time) of the doctor's blocks at a hospital on a weekday,
\* in minutes; NoMin when there is none (views.py:2485-2493)
LastEnd(doctor_id, hospital_id, weekday) ==
    LET blocks == SchedulesOf(doctor_id, hospital_id, weekday)
        ends == {hhmm_to_min(blocks[k].end_time) : k \in 1 .. Len(blocks)}
    IN  IF ends = {} THEN NoMin
        ELSE CHOOSE e \in ends : \A f \in ends : f <= e

\* views.py:2448-2467 list_doctor_appointments: a doctor (a member of some
\* hospital, or with appointments) lists the appointments; first every
\* 'booked' row of a day before today becomes 'done'
ListDoctorAppointments_PastDays(s, user) ==
    /\ sessions[s].pc = "idle"
    /\ LET r == LifecycleRequest("list_doctor_appointments", user, 0)
           is_doctor == \/ \E m \in hospital_doctors : m.doctor_user_id = user
                        \/ \E i \in Ids(appointments) :
                              appointments[i].doctor_user_id = user
       IN  IF ~is_doctor
           THEN /\ sessions' = [sessions EXCEPT ![s] = Done(r, "not_doctor")]
                /\ UNCHANGED appointments
           ELSE /\ sessions' = [sessions EXCEPT ![s] = [r EXCEPT !.pc = "today"]]
                /\ appointments' =
                     [i \in Ids(appointments) |->
                        IF /\ appointments[i].doctor_user_id = user
                           /\ appointments[i].status = "booked"
                           /\ DateOf(appointments[i].starts_at) < DateOf(now)
                        THEN [appointments[i] EXCEPT !.status = "done"]
                        ELSE appointments[i]]
    /\ UNCHANGED <<now, service_bookings, named_locks, notifications, alloc,
                   available_beds>>

\* views.py:2468-2532: then, per hospital with a block today, every
\* 'booked' row of today becomes 'done' once the time of day is past the
\* last block's end; the rows are answered
ListDoctorAppointments_Today(s) ==
    /\ sessions[s].op = "list_doctor_appointments"
    /\ sessions[s].pc = "today"
    /\ LET r == sessions[s]
           wk == WeekdayOf(DateOf(now))
           tod == (now % SecondsPerDay)
       IN  /\ appointments' =
                [i \in Ids(appointments) |->
                   LET ap == appointments[i]
                       last_end == LastEnd(r.user, ap.hospital_user_id, wk)
                   IN  IF /\ ap.doctor_user_id = r.user
                          /\ ap.status = "booked"
                          /\ last_end # NoMin
                          /\ DateOf(ap.starts_at) = DateOf(now)
                          /\ tod > last_end * 60
                       THEN [ap EXCEPT !.status = "done"]
                       ELSE ap]
           /\ sessions' = [sessions EXCEPT ![s] = Done(r, "ok")]
    /\ UNCHANGED <<now, service_bookings, named_locks, notifications, alloc,
                   available_beds>>

\* faulty variant of ResponseAfterNotify: a failed delivery fails the request
ResponseAfterNotifyRaises(delivered) ==
    IF delivered THEN "ok" ELSE "server_error"

\* utils.py:194-201 and the try/except around every _notify call: whether
\* or not the notification was delivered, the handler goes on to its
\* success response
ResponseAfterNotify(delivered) == "ok"

\* a handler's notifications are not delivered: _notify raises inside, the
\* exception is swallowed, no notifications row is written
Notify_Fails(s) ==
    /\ sessions[s].pc = "notify"
    /\ sessions' = [sessions EXCEPT ![s] =
                      Done(sessions[s], ResponseAfterNotify(FALSE))]
    /\ UNCHANGED <<now, service_bookings, appointments, named_locks,
                   notifications, alloc, available_beds>>

(***************************************************************************)
(* The clock and the empty store                                           *)
(***************************************************************************)

\* the first instant of the runs: day 0, 20:00:00
Now0 == 20 * 3600

\* the instants the clock passes through: the start, exactly 2 hours and
\* 1 hour 59 minutes 59 seconds before 09:00 of day 1, day 1 after the last
\* block's end, and day 2
ClockInstants ==
    {Now0,
     SecondsPerDay + 7 * 3600,
     SecondsPerDay + 7 * 3600 + 1,
     SecondsPerDay + 12 * 3600,
     2 * SecondsPerDay + 8 * 3600}

\* time passes: utcnow() and the database's NOW() move to a later instant
Tick(instants) ==
    /\ \E t \in instants : t > now /\ now' = t
    /\ UNCHANGED <<service_bookings, appointments, named_locks, notifications,
                   sessions, alloc, available_beds>>

\* the store before the first request, served by the workers of set S
InitStore(S) ==
    /\ now = Now0
    /\ service_bookings = <<>>
    /\ appointments = <<>>
    /\ named_locks = {}
    /\ notifications = {}
    /\ sessions = [s \in S |-> Idle]
    /\ available_beds = InitialBeds

(***************************************************************************)
(* SpecAlloc: the nearest-slot search on every input of a bounded set      *)
(***************************************************************************)

InitAlloc == InitStore({1}) /\ InitAllocInputs

SpecAlloc == InitAlloc /\ [][FindNearestSlot]_vars

(***************************************************************************)
(* SpecSvc: concurrent requests on the service bookings of one service     *)
(* and day                                                                 *)
(***************************************************************************)

\* the workers: two requests can be in progress at a time
SvcSessions == {1, 2}

\* book_service requests are accepted while the table stays this small
SvcMaxBookings == 2

\* the requesters
SvcUsers == {1, 2}

\* request bodies' scheduled_at, <<date, 'HH:MM'>>: on the slot grid of
\* service 1, off the grid, and before the window
SvcScheduledAts == {<<1, <<9, 0>>>>, <<1, <<9, 15>>>>, <<1, <<8, 0>>>>}

InitSvc == InitStore(SvcSessions) /\ alloc = IdleAlloc

NextSvc ==
    \E s \in SvcSessions :
        \/ /\ Len(service_bookings) + PendingBookService < SvcMaxBookings
           /\ \E u \in SvcUsers, at \in SvcScheduledAts :
                BookService_Begin(s, u, 1, 10, at, 0)
        \/ BookService_Capacity(s)
        \/ BookService_GetLock(s)
        \/ BookService_LockTimeout(s)
        \/ BookService_DayTotal(s)
        \/ BookService_Allocate(s)
        \/ BookService_Release(s)
        \/ BookService_Insert(s)
        \/ BookService_Notify(s)
        \/ \E u \in SvcUsers, b \in 1 .. SvcMaxBookings :
             RequestCancelService_Select(s, u, b)
        \/ RequestCancelService_Update(s)
        \/ RequestCancelService_Notify(s)
        \/ \E b \in 1 .. SvcMaxBookings,
              op \in {"confirm_service_booking", "decline_service_booking"} :
             HospitalDecision_Select(s, op, 10, b)
        \/ ConfirmService_Update(s)
        \/ ConfirmService_Notify(s)
        \/ DeclineService_Update(s)
        \/ DeclineService_Notify(s)
        \/ SessionReturn(s)

SpecSvc == InitSvc /\ [][NextSvc]_vars

(***************************************************************************)
(* SpecAppt: concurrent book_appointment requests for one doctor/hospital  *)
(* pair and day                                                            *)
(***************************************************************************)

\* the workers
ApptSessions == {1, 2}

\* book_appointment requests are accepted while the table stays this small
ApptMaxRows == 3

\* the patients
ApptUsers == {1, 2, 3}

\* request bodies' <<starts_at, ends_at>>, each <<date, 'HH:MM'>>: inside
\* the first block, inside the second, an empty range, outside every block
ApptTimes ==
    {<<<<1, <<9, 0>>>>, <<1, <<9, 30>>>>>>,
     <<<<1, <<10, 0>>>>, <<1, <<10, 15>>>>>>,
     <<<<1, <<9, 30>>>>, <<1, <<9, 0>>>>>>,
     <<<<1, <<8, 0>>>>, <<1, <<8, 30>>>>>>}

InitAppt == InitStore(ApptSessions) /\ alloc = IdleAlloc

NextAppt ==
    \E s \in ApptSessions :
        \/ /\ Len(appointments) + PendingBookAppointment < ApptMaxRows
           /\ \E u \in ApptUsers, t \in ApptTimes :
                BookAppointment_Begin(s, u, 20, 10, t[1], t[2])
        \/ BookAppointment_GetLock(s)
        \/ BookAppointment_LockTimeout(s)
        \/ BookAppointment_DayCount(s)
        \/ BookAppointment_Insert(s)
        \/ BookAppointment_Release(s)
        \/ BookAppointment_Notify(s)
        \/ SessionReturn(s)

SpecAppt == InitAppt /\ [][NextAppt]_vars

(***************************************************************************)
(* SpecLife: two workers serve lifecycle requests on one service booking   *)
(* and one appointment that were booked before, while time passes and      *)
(* notifications may fail                                                  *)
(***************************************************************************)

\* the workers
LifeSessions == {1, 2}

\* the requesters: 1 booked both rows, 2 is another account
LifeUsers == {1, 2}

\* the instants of the clock: the start, and day 1 after the last block
LifeInstants == {Now0, SecondsPerDay + 12 * 3600}

\* the row book_service wrote for user 1's crisis-linked request of
\* service 1 at 09:00 of day 1
LifeServiceBooking ==
    [user_id |-> 1, hospital_user_id |-> 10, service_id |-> 1,
     scheduled_at |-> Timestamp(1, <<9, 0>>), status |-> InitialStatus,
     serial |-> 1, approx_time |-> <<9, 0>>, crisis_id |-> 1]

\* the row book_appointment wrote for user 1's request of 09:00-09:30 of
\* day 1 with doctor 20 at hospital 10
LifeAppointment ==
    [patient_user_id |-> 1, doctor_user_id |-> 20, hospital_user_id |-> 10,
     starts_at |-> Timestamp(1, <<9, 0>>),
     ends_at |-> Timestamp(1, <<9, 30>>), status |-> InitialStatus,
     serial |-> 1, approx_time |-> <<9, 0>>]

InitLife ==
    /\ now = Now0
    /\ service_bookings = <<LifeServiceBooking>>
    /\ appointments = <<LifeAppointment>>
    /\ named_locks = {}
    /\ notifications = {}
    /\ sessions = [s \in LifeSessions |-> Idle]
    /\ alloc = IdleAlloc
    /\ available_beds = InitialBeds

NextLife ==
    \/ Tick(LifeInstants)
    \/ \E s \in LifeSessions :
        \/ \E u \in LifeUsers : RequestCancelService_Select(s, u, 1)
        \/ RequestCancelService_Update(s)
        \/ RequestCancelService_Notify(s)
        \/ \E op \in {"confirm_service_booking", "decline_service_booking"} :
             HospitalDecision_Select(s, op, 10, 1)
        \/ ConfirmService_ReadBeds(s)
        \/ ConfirmService_DecrementBeds(s)
        \/ ConfirmService_Update(s)
        \/ ConfirmService_Notify(s)
        \/ DeclineService_Update(s)
        \/ DeclineService_Notify(s)
        \/ \E u \in LifeUsers : RequestCancelAppointment_Select(s, u, 1)
        \/ RequestCancelAppointment_Update(s)
        \/ RequestCancelAppointment_Notify(s)
        \/ \E op \in {"confirm_appointment", "approve_cancel_appointment",
                      "decline_cancel_appointment"} :
             DoctorDecision_Select(s, op, 20, 1)
        \/ DoctorDecision_Update(s)
        \/ DoctorDecision_Notify(s)
        \/ ListDoctorAppointments_PastDays(s, 20)
        \/ ListDoctorAppointments_Today(s)
        \/ SessionReturn(s)

SpecLife == InitLife /\ [][NextLife]_vars

(***************************************************************************)
(* SpecSeq: one worker serves requests of every kind one after another,    *)
(* from the empty store, while time passes and notifications may fail      *)
(***************************************************************************)

\* the worker
SeqSessions == {1}

\* requests that insert a row are accepted while each table stays this small
SeqMaxRows == 1

\* the requesters
SeqUsers == {1, 2}

\* request bodies' crisis_id: none, or crisis 1
SeqCrises == {0, 1}

InitSeq == InitStore(SeqSessions) /\ alloc = IdleAlloc

NextSeq ==
    \/ Tick(ClockInstants)
    \/ \E s \in SeqSessions :
        \/ /\ Len(service_bookings) < SeqMaxRows
           /\ \E u \in SeqUsers, c \in SeqCrises :
                BookService_Begin(s, u, 1, 10, <<1, <<9, 0>>>>, c)
        \/ BookService_Capacity(s)
        \/ BookService_GetLock(s)
        \/ BookService_DayTotal(s)
        \/ BookService_Allocate(s)
        \/ BookService_Release(s)
        \/ BookService_Insert(s)
        \/ BookService_Notify(s)
        \/ \E u \in SeqUsers, b \in 1 .. SeqMaxRows :
             RequestCancelService_Select(s, u, b)
        \/ RequestCancelService_Update(s)
        \/ RequestCancelService_Notify(s)
        \/ \E b \in 1 .. SeqMaxRows,
              op \in {"confirm_service_booking", "decline_service_booking"} :
             HospitalDecision_Select(s, op, 10, b)
        \/ ConfirmService_ReadBeds(s)
        \/ ConfirmService_DecrementBeds(s)
        \/ ConfirmService_Update(s)
        \/ ConfirmService_Notify(s)
        \/ DeclineService_Update(s)
        \/ DeclineService_Notify(s)
        \/ /\ Len(appointments) < SeqMaxRows
           /\ \E u \in SeqUsers :
                BookAppointment_Begin(s, u, 20, 10, <<1, <<9, 0>>>>,
                                      <<1, <<9, 30>>>>)
        \/ BookAppointment_GetLock(s)
        \/ BookAppointment_DayCount(s)
        \/ BookAppointment_Insert(s)
        \/ BookAppointment_Release(s)
        \/ BookAppointment_Notify(s)
        \/ \E u \in SeqUsers, b \in 1 .. SeqMaxRows :
             RequestCancelAppointment_Select(s, u, b)
        \/ RequestCancelAppointment_Update(s)
        \/ RequestCancelAppointment_Notify(s)
        \/ \E b \in 1 .. SeqMaxRows,
              op \in {"confirm_appointment", "approve_cancel_appointment",
                      "decline_cancel_appointment"} :
             DoctorDecision_Select(s, op, 20, b)
        \/ DoctorDecision_Update(s)
        \/ DoctorDecision_Notify(s)
        \/ ListDoctorAppointments_PastDays(s, 20)
        \/ ListDoctorAppointments_Today(s)
        \/ Notify_Fails(s)
        \/ SessionReturn(s)

SpecSeq == InitSeq /\ [][NextSeq]_vars

(***************************************************************************)
(* SpecBook: two workers serve book_service and book_appointment requests, *)
(* valid and invalid ones, and an INSERT may fail                          *)
(***************************************************************************)

\* the workers
BookSessions == {1, 2}

\* book_service requests are accepted while the table stays this small
BookMaxBookings == 2

\* book_appointment requests are accepted while the table stays this small
BookMaxRows == 3

\* the requesters of book_service
BookUsers == {1, 2}

\* the patients of book_appointment
BookPatients == {1, 2, 3}

\* request bodies' scheduled_at of book_service: inside the window, before
\* the window, and a time that does not parse
BookScheduledAts == {<<1, <<9, 0>>>>, <<1, <<8, 0>>>>, <<1, BadTime>>}

\* request bodies' <<starts_at, ends_at>> of book_appointment: inside the
\* first block, and outside every block
BookTimes ==
    {<<<<1, <<9, 0>>>>, <<1, <<9, 30>>>>>>,
     <<<<1, <<8, 0>>>>, <<1, <<8, 30>>>>>>}

InitBook == InitStore(BookSessions) /\ alloc = IdleAlloc

NextBook ==
    \E s \in BookSessions :
        \/ /\ Len(service_bookings) + PendingBookService < BookMaxBookings
           /\ \E u \in BookUsers, at \in BookScheduledAts :
                BookService_Begin(s, u, 1, 10, at, 0)
        \/ BookService_Capacity(s)
        \/ BookService_GetLock(s)
        \/ BookService_LockTimeout(s)
        \/ BookService_DayTotal(s)
        \/ BookService_Allocate(s)
        \/ BookService_Release(s)
        \/ BookService_Insert(s)
        \/ BookService_Notify(s)
        \/ /\ Len(appointments) + PendingBookAppointment < BookMaxRows
           /\ \E u \in BookPatients, t \in BookTimes :
                BookAppointment_Begin(s, u, 20, 10, t[1], t[2])
        \/ BookAppointment_GetLock(s)
        \/ BookAppointment_LockTimeout(s)
        \/ BookAppointment_DayCount(s)
        \/ BookAppointment_Insert(s)
        \/ BookAppointment_InsertFails(s)
        \/ BookAppointment_Release(s)
        \/ BookAppointment_Notify(s)
        \/ SessionReturn(s)

SpecBook == InitBook /\ [][NextBook]_vars

(***************************************************************************)
(* SpecAmb: two workers serve book_service requests for the hospital's two *)
(* ambulance services while time passes                                    *)
(***************************************************************************)

\* the workers
AmbSessions == {1, 2}

\* book_service requests are accepted while the table stays this small
AmbMaxBookings == 2

\* the requesters
AmbUsers == {1, 2}

\* the ambulance services: the one _ensure_ambulance_service created and
\* the one with a daily limit and a window
AmbServices == {2, 3}

\* request bodies' scheduled_at: absent, or a time before the window
AmbScheduledAts == {NoSched, <<1, <<8, 0>>>>}

\* the instants of the clock: the start, and the next day at noon
AmbInstants == {Now0, SecondsPerDay + 12 * 3600}

InitAmb == InitStore(AmbSessions) /\ alloc = IdleAlloc

NextAmb ==
    \/ Tick(AmbInstants)
    \/ \E s \in AmbSessions :
        \/ /\ Len(service_bookings) + PendingBookService < AmbMaxBookings
           /\ \E u \in AmbUsers, v \in AmbServices, at \in AmbScheduledAts :
                BookService_Begin(s, u, v, 10, at, 0)
        \/ BookService_Capacity(s)
        \/ BookService_GetLock(s)
        \/ BookService_LockTimeout(s)
        \/ BookService_DayTotal(s)
        \/ BookService_Allocate(s)
        \/ BookService_Release(s)
        \/ BookService_Insert(s)
        \/ BookService_Notify(s)
        \/ SessionReturn(s)

SpecAmb == InitAmb /\ [][NextAmb]_vars

(***************************************************************************)
(* SpecRebook: one worker serves bookings and the lifecycle requests that  *)
(* end them, so that a requester can ask again for the same provider and   *)
(* day                                                                     *)
(***************************************************************************)

\* the worker
RebookSessions == {1}

\* requests that insert a row are accepted while each table stays this small
RebookMaxRows == 2

\* the requesters
RebookUsers == {1, 2}

InitRebook == InitStore(RebookSessions) /\ alloc = IdleAlloc

NextRebook ==
    \E s \in RebookSessions :
        \/ /\ Len(service_bookings) < RebookMaxRows
           /\ \E u \in RebookUsers :
                BookService_Begin(s, u, 1, 10, <<1, <<9, 0>>>>, 0)
        \/ BookService_Capacity(s)
        \/ BookService_GetLock(s)
        \/ BookService_DayTotal(s)
        \/ BookService_Allocate(s)
        \/ BookService_Release(s)
        \/ BookService_Insert(s)
        \/ BookService_Notify(s)
        \/ \E u \in RebookUsers, b \in 1 .. RebookMaxRows :
             RequestCancelService_Select(s, u, b)
        \/ RequestCancelService_Update(s)
        \/ RequestCancelService_Notify(s)
        \/ \E b \in 1 .. RebookMaxRows,
              op \in {"confirm_service_booking", "decline_service_booking"} :
             HospitalDecision_Select(s, op, 10, b)
        \/ ConfirmService_Update(s)
        \/ ConfirmService_Notify(s)
        \/ DeclineService_Update(s)
        \/ DeclineService_Notify(s)
        \/ /\ Len(appointments) < RebookMaxRows
           /\ \E u \in RebookUsers :
                BookAppointment_Begin(s, u, 20, 10, <<1, <<9, 0>>>>,
                                      <<1, <<9, 30>>>>)
        \/ BookAppointment_GetLock(s)
        \/ BookAppointment_DayCount(s)
        \/ BookAppointment_Insert(s)
        \/ BookAppointment_Release(s)
        \/ BookAppointment_Notify(s)
        \/ \E u \in RebookUsers, b \in 1 .. RebookMaxRows :
             RequestCancelAppointment_Select(s, u, b)
        \/ RequestCancelAppointment_Update(s)
        \/ RequestCancelAppointment_Notify(s)
        \/ \E b \in 1 .. RebookMaxRows,
              op \in {"confirm_appointment", "approve_cancel_appointment",
                      "decline_cancel_appointment"} :
             DoctorDecision_Select(s, op, 20, b)
        \/ DoctorDecision_Update(s)
        \/ DoctorDecision_Notify(s)
        \/ SessionReturn(s)

SpecRebook == InitRebook /\ [][NextRebook]_vars

(***************************************************************************)
(* Properties of the nearest-slot search, under SpecAlloc                  *)
(***************************************************************************)

\* C6: for every input (desired time, window start, window end, step, taken
\* set) the slot the search returns, if any, is not a member of the taken
\* set and lies within [windowStart, windowEnd].  The search is the operator
\* NearestSlot, a function of these five inputs alone.
ReturnedSlotFreeAndInWindow ==
    alloc.pc = "found" =>
        /\ alloc.found \notin alloc.taken
        /\ WStartMin(alloc.wstart) <= hhmm_to_min(alloc.found)
        /\ hhmm_to_min(alloc.found) <= WEndMin(alloc.wend)
        /\ alloc.found = NearestSlot(alloc.time_part, alloc.wstart, alloc.wend,
                                     alloc.duration_minutes, alloc.taken)

\* a slot was returned that is not the desired time, some times being taken
\* and the window being bounded on both sides
ReturnedSlotAfterSkipping ==
    /\ alloc.pc = "found"
    /\ alloc.taken # {}
    /\ alloc.wstart # NoTime /\ alloc.wend # NoTime
    /\ alloc.found # min_to_hhmm(DesiredMin(alloc.time_part, alloc.wstart,
                                            alloc.wend))

ConcreteCaseInputs ==
    /\ alloc.time_part = <<9, 15>>
    /\ alloc.wstart = <<9, 0>> /\ alloc.wend = <<12, 0>>
    /\ alloc.duration_minutes = 30
    /\ alloc.taken = {<<9, 0>>, <<9, 30>>, <<10, 0>>}

\* C8 as stated: for window 09:00-12:00, step 30 minutes, taken = {09:00,
\* 09:30, 10:00} and desired time 09:15, the slot allocated is 10:30.
ConcreteCaseAllocatesTenThirty ==
    (ConcreteCaseInputs /\ alloc.pc # "call") =>
        (alloc.pc = "found" /\ alloc.found = <<10, 30>>)

\* C8: for window 09:00-12:00, step 30 minutes, taken = {09:00, 09:30,
\* 10:00} and desired time 09:15, the slot allocated is 09:15: the desired
\* time itself is in the window and not taken, so the search stops at
\* distance 0.
ConcreteCaseAllocatesDesired ==
    (ConcreteCaseInputs /\ alloc.pc # "call") =>
        (alloc.pc = "found" /\ alloc.found = <<9, 15>>)

\* the search has returned a slot on the inputs of the concrete case
ConcreteCaseSearched ==
    ConcreteCaseInputs /\ alloc.pc = "found"

(***************************************************************************)
(* Properties of the booking handlers, under SpecSvc and SpecAppt          *)
(***************************************************************************)

\* the statuses in which a booking is active
ActiveStatuses == {"booked", "confirmed"}

\* C1: for a hospital service with max_per_day = N > 0 and any interleaving
\* of concurrent book_service requests for that service and one calendar
\* day, the number of service_bookings rows of that service and day in an
\* active status (booked or confirmed) never exceeds N.
ServiceCapacityRespected ==
    \A sid \in DOMAIN hospital_services :
        \A i \in Ids(service_bookings) :
            (service_bookings[i].service_id = sid
             /\ hospital_services[sid].max_per_day > 0)
            => Cardinality({j \in Ids(service_bookings) :
                  /\ service_bookings[j].service_id = sid
                  /\ DateOf(service_bookings[j].scheduled_at)
                       = DateOf(service_bookings[i].scheduled_at)
                  /\ service_bookings[j].status \in ActiveStatuses})
               <= hospital_services[sid].max_per_day

\* C2: for a doctor/hospital pair whose schedule blocks of the requested
\* weekday sum to max_per_day = N > 0, and any interleaving of concurrent
\* book_appointment requests for that pair and one calendar day, requests
\* whose lock acquisition times out included, the number of appointments of
\* that pair and day in an active status never exceeds N.
AppointmentCapacityRespected ==
    \A i \in Ids(appointments) :
        LET a == appointments[i]
            day == DateOf(a.starts_at)
            N == SumMaxPerDay(SchedulesOf(a.doctor_user_id, a.hospital_user_id,
                                          WeekdayOf(day)))
        IN  N > 0 =>
              Cardinality({j \in DayAppointments(a.doctor_user_id,
                                                 a.hospital_user_id, day) :
                              appointments[j].status \in ActiveStatuses}) <= N

\* C3: in every reachable state, after any sequence or interleaving of
\* booking calls and lifecycle transitions (confirm, decline, cancel), no
\* two bookings that share the same provider and calendar day carry the
\* same serial.
SerialUniquePerProviderDay ==
    \A i, j \in Ids(service_bookings) :
        (/\ i # j
         /\ service_bookings[i].service_id = service_bookings[j].service_id
         /\ DateOf(service_bookings[i].scheduled_at)
              = DateOf(service_bookings[j].scheduled_at))
        => service_bookings[i].serial # service_bookings[j].serial

\* C4: for one (provider, day), as long as no booking of that provider/day
\* has been cancelled (here: or declined, every row still being booked or
\* confirmed), the serials of the k created bookings are exactly 1, 2, ...,
\* k in creation order.
SerialsContiguousInCreationOrder ==
    \A i \in Ids(service_bookings) :
        LET same == {j \in Ids(service_bookings) :
                       /\ service_bookings[j].service_id
                            = service_bookings[i].service_id
                       /\ DateOf(service_bookings[j].scheduled_at)
                            = DateOf(service_bookings[i].scheduled_at)}
        IN  (\A j \in same : service_bookings[j].status \in ActiveStatuses)
            => service_bookings[i].serial
                 = Cardinality({j \in same : j <= i})

\* C5: in every reachable state, no two service bookings of the same
\* non-immediate service and calendar day that are both in an active status
\* (booked or confirmed) have the same allocated time.
ActiveSlotsDistinct ==
    \A i, j \in Ids(service_bookings) :
        (/\ i # j
         /\ ~hospital_services[service_bookings[i].service_id].ambulance
         /\ service_bookings[i].service_id = service_bookings[j].service_id
         /\ DateOf(service_bookings[i].scheduled_at)
              = DateOf(service_bookings[j].scheduled_at)
         /\ service_bookings[i].status \in ActiveStatuses
         /\ service_bookings[j].status \in ActiveStatuses)
        => service_bookings[i].scheduled_at # service_bookings[j].scheduled_at

\* C9: after a requester has booked provider P on day D, every later
\* booking attempt by the same requester for P on D that arrives while the
\* first booking is still active (booked or confirmed) is rejected with the
\* duplicate-booking error, creates no row and leaves the first booking
\* unchanged.  The attempts looked at are book_service requests for a time
\* of day inside the service's window, which no other test would reject
\* for their time.
LaterAttemptRejected ==
    [][\A s \in DOMAIN sessions :
          (/\ sessions[s].pc = "idle"
           /\ sessions'[s].op = "book_service"
           /\ LET svc == hospital_services[sessions'[s].service_id]
                  t == hhmm_to_min(sessions'[s].scheduled_at[2])
              IN  /\ hhmm_to_min(svc.window_start_time) <= t
                  /\ t <= hhmm_to_min(svc.window_end_time)
           /\ \E i \in Ids(service_bookings) :
                /\ service_bookings[i].user_id = sessions'[s].user
                /\ service_bookings[i].service_id = sessions'[s].service_id
                /\ DateOf(service_bookings[i].scheduled_at)
                     = sessions'[s].effective_day
                /\ service_bookings[i].status \in ActiveStatuses)
          => (/\ sessions'[s].pc = "done"
              /\ sessions'[s].resp = "one_per_day"
              /\ service_bookings' = service_bookings)]_vars

\* C10: when a booking request cannot acquire the (provider, day) lock
\* within the timeout, the request fails with a retryable contention error
\* (HTTP 409), distinct from 'full', and inserts no booking row.
LockTimeoutFailsWithContention ==
    \A s \in DOMAIN sessions :
        (/\ sessions[s].op = "book_appointment"
         /\ sessions[s].pc = "done"
         /\ sessions[s].timed_out)
        => (sessions[s].resp = "contention" /\ sessions[s].appt_id = 0)

(***************************************************************************)
(* Properties of the lifecycle, under SpecLife                             *)
(***************************************************************************)

\* the status changes of the specification's state diagram
StatedTransitions ==
    {<<"booked", "confirmed">>, <<"booked", "declined">>,
     <<"booked", "cancelled">>, <<"confirmed", "done">>}

\* the status changes of a service booking (views.py:1650, 1715, 1750)
ServiceTransitions ==
    {<<"booked", "confirmed">>, <<"booked", "declined">>,
     <<"booked", "cancelled">>}

\* the status changes of an appointment (views.py:2461, 2498, 2549, 2603,
\* 2645, 2662)
AppointmentTransitions ==
    {<<"booked", "done">>, <<"booked", "cancel_requested">>,
     <<"cancel_requested", "cancelled">>, <<"cancel_requested", "booked">>}

\* the status changes one step makes in a table
Changes(old, new) ==
    {<<old[i].status, new[i].status>> : i \in
        {j \in Ids(old) : old[j].status # new[j].status}}

\* C13, as stated: every status change of a service booking or an
\* appointment is one of booked->confirmed, booked->declined,
\* booked->cancelled, confirmed->done.
StatusChangesAsStated ==
    [][/\ Changes(service_bookings, service_bookings') \subseteq
            StatedTransitions
       /\ Changes(appointments, appointments') \subseteq
            StatedTransitions]_vars

\* C13, as the code has it: every status change of a service booking is one
\* of booked->confirmed, booked->declined, booked->cancelled; every status
\* change of an appointment is one of booked->done,
\* booked->cancel_requested, cancel_requested->cancelled,
\* cancel_requested->booked.  No row leaves 'confirmed'.
StatusChangesOfLifecycle ==
    [][/\ Changes(service_bookings, service_bookings') \subseteq
            ServiceTransitions
       /\ Changes(appointments, appointments') \subseteq
            AppointmentTransitions]_vars

\* the service booking was confirmed, and the appointment went through
\* cancel_requested back to booked and was then completed
BothRowsChangedStatus ==
    /\ service_bookings[1].status = "confirmed"
    /\ appointments[1].status = "done"
    /\ [user_id |-> 1, type |-> "appointment_cancel_declined", id |-> 1]
         \in notifications

\* the final statuses
TerminalStatuses == {"declined", "cancelled", "done"}

\* C14: once the status of a service booking or an appointment is declined,
\* cancelled or done, no step of any operation (confirm, decline, cancel
\* request, cancel approval or decline, the doctor's list with its
\* auto-complete) changes it.
TerminalStatusNeverChanges ==
    [][/\ \A i \in Ids(service_bookings) :
            service_bookings[i].status \in TerminalStatuses
            => service_bookings'[i].status = service_bookings[i].status
       /\ \A i \in Ids(appointments) :
            appointments[i].status \in TerminalStatuses
            => appointments'[i].status = appointments[i].status]_vars

\* a confirm_appointment request that read the row as 'booked' has run its
\* UPDATE after the row was cancelled, and a confirm_service_booking
\* request has run its UPDATE after the booking was declined
UpdateRanOnTerminalRow ==
    \/ \E s \in DOMAIN sessions :
         /\ sessions[s].op = "confirm_appointment"
         /\ sessions[s].pc = "notify"
         /\ appointments[1].status = "cancelled"
    \/ \E s \in DOMAIN sessions :
         /\ sessions[s].op = "confirm_service_booking"
         /\ sessions[s].pc = "notify"
         /\ service_bookings[1].status = "declined"

\* the service bookings whose confirmation takes a bed and that are confirmed
ConfirmedBedBookings ==
    {i \in Ids(service_bookings) :
        /\ TakesBed(service_bookings[i].crisis_id,
                    service_bookings[i].service_id)
        /\ service_bookings[i].status = "confirmed"}

\* C16: no step of book_service changes available_beds, and whenever no
\* request is in progress, the beds taken since the start (initial
\* available_beds - current available_beds) are as many as the
\* crisis-linked non-ambulance bookings that went from booked to confirmed
\* ('confirmed' is never left, so these are the confirmed rows).
BedsMatchConfirmedBookings ==
    (\A s \in DOMAIN sessions : sessions[s].pc \in {"idle", "done"})
    => InitialBeds - available_beds = Cardinality(ConfirmedBedBookings)

\* C17: available_beds is never negative, under any interleaving of
\* confirm_service_booking requests.
BedsNeverNegative == available_beds >= 0

\* two confirm requests have both run the decrement, with one bed to take
BothConfirmsDecremented ==
    /\ available_beds = 0
    /\ \A s \in DOMAIN sessions :
         /\ sessions[s].op = "confirm_service_booking"
         /\ sessions[s].pc = "update"

(***************************************************************************)
(* Properties of requests served one after another, under SpecSeq          *)
(***************************************************************************)

\* the requester's cancel requests
CancelRequests ==
    {"request_cancel_service_booking", "request_cancel_appointment"}

\* the row a lifecycle request is about, and its allocated time
RowOf(r) ==
    IF r.op = "request_cancel_service_booking"
    THEN service_bookings[r.booking_id] ELSE appointments[r.booking_id]

AllocatedTime(r) ==
    IF r.op = "request_cancel_service_booking"
    THEN service_bookings[r.booking_id].scheduled_at
    ELSE appointments[r.booking_id].starts_at

\* C12: a requester's cancel request (request_cancel_service_booking,
\* request_cancel_appointment) on the requester's own booked row goes on
\* to its UPDATE exactly when the allocated time is at least 2 hours after
\* the instant the handler read (2h0m0s is accepted), and is else answered
\* too_late_to_cancel; the step that decides changes no row, and the
\* UPDATE of a cancel request changes a status only from booked (so only
\* from booked or confirmed) and only for a request that passed the test.
CancelOnlyBeforeCutoff ==
    [][\A s \in DOMAIN sessions :
         /\ (/\ sessions[s].pc = "idle"
             /\ sessions'[s].op \in CancelRequests
             /\ sessions'[s].resp \notin {"not_found", "forbidden",
                                          "invalid_status"})
            => (/\ service_bookings' = service_bookings
                /\ appointments' = appointments
                /\ RowOf(sessions'[s]).status = "booked"
                /\ IF AllocatedTime(sessions'[s]) - now >= CancelCutoff
                   THEN sessions'[s].pc = "update"
                   ELSE /\ sessions'[s].pc = "done"
                        /\ sessions'[s].resp = "too_late_to_cancel")
         /\ (/\ sessions[s].op \in CancelRequests
             /\ sessions[s].pc = "update"
             /\ sessions'[s].pc = "notify"
             /\ <<service_bookings', appointments'>>
                  # <<service_bookings, appointments>>)
            => (/\ RowOf(sessions[s]).status \in {"booked", "confirmed"}
                /\ AllocatedTime(sessions[s]) - sessions[s].now
                     >= CancelCutoff)]_vars

\* a cancel request that arrived exactly 2 hours before the appointment's
\* start has been accepted
CancelAcceptedAtCutoff ==
    \E s \in DOMAIN sessions :
        /\ sessions[s].op = "request_cancel_appointment"
        /\ sessions[s].pc = "done"
        /\ sessions[s].resp = "ok"
        /\ appointments[sessions[s].booking_id].starts_at - sessions[s].now
             = CancelCutoff
        /\ appointments[sessions[s].booking_id].status = "cancel_requested"

\* C15: the step of a handler that sends its notifications (book_service,
\* book_appointment, every lifecycle transition) changes no booking row and
\* no bed count and ends with the success response, whether the
\* notifications were delivered or the delivery raised.
NotifyFailureKeepsOutcome ==
    [][\A s \in DOMAIN sessions :
         (sessions[s].pc = "notify" /\ sessions'[s] # sessions[s])
         => (/\ service_bookings' = service_bookings
             /\ appointments' = appointments
             /\ available_beds' = available_beds
             /\ sessions'[s] = Done(sessions[s], "ok"))]_vars

\* a confirm_service_booking request was answered 'ok' and the booking is
\* confirmed, although its notification was not delivered
ConfirmedWithoutNotification ==
    \E s \in DOMAIN sessions :
        /\ sessions[s].op = "confirm_service_booking"
        /\ sessions[s].pc = "done"
        /\ sessions[s].resp = "ok"
        /\ service_bookings[sessions[s].booking_id].status = "confirmed"
        /\ \A n \in notifications :
             n.type # "service_booking_confirmed_by_hospital"

\* a step keeps every row of a table, but for its status, and adds rows
\* only with status 'booked'
RowsKept(old, new) ==
    /\ Len(new) >= Len(old)
    /\ \A i \in Ids(old) : [new[i] EXCEPT !.status = old[i].status] = old[i]
    /\ \A i \in Ids(new) \ Ids(old) : new[i].status = "booked"

\* C20: every row of service_bookings and appointments is created with
\* status booked, and no step of any operation removes a row or changes
\* anything of it but the status: the set of booking ids only grows.
RowsCreatedBookedAndKept ==
    [][/\ RowsKept(service_bookings, service_bookings')
       /\ RowsKept(appointments, appointments')]_vars

\* both tables still hold their rows after these reached a final status
FinalRowsRetained ==
    /\ Len(service_bookings) = 1
    /\ service_bookings[1].status = "cancelled"
    /\ Len(appointments) = 1
    /\ appointments[1].status = "done"
    /\ DateOf(now) > DateOf(appointments[1].starts_at)

(***************************************************************************)
(* Properties of the (provider, day) lock, under SpecBook                  *)
(***************************************************************************)

\* C11: every book_service or book_appointment request that acquired the
\* (provider, day) lock has released it by the time it returns, on every
\* exit path (success, 'full' or 'capacity_full', an exception raised by
\* the INSERT or by the allocation after the acquisition): every named lock
\* is held by a request still in progress, so once the requests have
\* returned the lock is free for the next one.
LockReleasedOnReturn ==
    \A l \in named_locks : sessions[l.holder].pc \notin {"idle", "done"}

\* a book_appointment request answered capacity_full and a book_service
\* request ended by an exception have both returned after holding their
\* locks, and no lock is held
ReturnedAfterHoldingLock ==
    /\ named_locks = {}
    /\ \E s \in DOMAIN sessions :
         /\ sessions[s].op = "book_appointment"
         /\ sessions[s].pc = "done"
         /\ sessions[s].resp = "capacity_full"
         /\ sessions[s].got_lock
    /\ \E s \in DOMAIN sessions :
         /\ sessions[s].op = "book_service"
         /\ sessions[s].pc = "done"
         /\ sessions[s].resp = "server_error"
         /\ sessions[s].locked

\* the validation errors and the duplicate-booking errors of the two
\* booking handlers
RejectionsBeforeLock ==
    {"missing_fields", "service_not_found", "service_unavailable",
     "outside_window", "no_schedule", "invalid_time", "invalid_range",
     "outside_schedule", "not_member", "one_per_day",
     "already_booked_same_day"}

\* C19: every booking request that ended with a validation error or with
\* the duplicate-booking error has returned without having asked for the
\* (provider, day) lock: GET_LOCK neither answered 1 nor timed out for it,
\* and it holds no lock.
RejectedWithoutLock ==
    \A s \in DOMAIN sessions :
        (/\ sessions[s].op \in {"book_service", "book_appointment"}
         /\ sessions[s].pc = "done"
         /\ sessions[s].resp \in RejectionsBeforeLock)
        => (/\ ~sessions[s].timed_out
            /\ IF sessions[s].op = "book_service"
               THEN ~sessions[s].locked ELSE ~sessions[s].got_lock
            /\ \A l \in named_locks : l.holder # s)

\* one request was rejected as a duplicate and another for its time, while
\* a row of the day exists
DuplicateAndWindowRejected ==
    /\ appointments # <<>>
    /\ \E s \in DOMAIN sessions :
         /\ sessions[s].op = "book_appointment"
         /\ sessions[s].pc = "done"
         /\ sessions[s].resp = "already_booked_same_day"
    /\ \E s \in DOMAIN sessions :
         /\ sessions[s].op = "book_service"
         /\ sessions[s].pc = "done"
         /\ sessions[s].resp = "outside_window"

(***************************************************************************)
(* Properties of ambulance bookings, under SpecAmb                         *)
(***************************************************************************)

\* C18: a book_service request for an available ambulance (immediate)
\* service always succeeds: it is never rejected with 'full' or
\* 'outside_window', whatever the window, the taken times and the number of
\* existing bookings.
AmbulanceNeverRejected ==
    \A s \in DOMAIN sessions :
        (/\ sessions[s].op = "book_service"
         /\ sessions[s].pc = "done"
         /\ sessions[s].service_id \in DOMAIN hospital_services
         /\ hospital_services[sessions[s].service_id].ambulance
         /\ hospital_services[sessions[s].service_id].available = 1)
        => sessions[s].resp \notin {"full", "outside_window"}

(***************************************************************************)
(* Properties of the booking steps and the lock, under SpecBook            *)
(***************************************************************************)

\* the (provider, day) lock key of a booking request
LockKeyOf(r) ==
    IF r.op = "book_service" THEN SvcLockKey(r.service_id, r.date_part)
    ELSE ApptLockKey(r.doctor_id, r.hospital_id, r.day)

\* C21: every step that inserts a row into service_bookings or
\* appointments is taken by a request that holds the advisory lock of the
\* row's (provider, day) at that moment.
InsertHoldsLock ==
    [][\A s \in DOMAIN sessions :
         (/\ sessions[s].pc = "insert"
          /\ sessions'[s].pc # "insert"
          /\ \/ Len(service_bookings') > Len(service_bookings)
             \/ Len(appointments') > Len(appointments))
         => [key |-> LockKeyOf(sessions[s]), holder |-> s] \in named_locks]_vars

\* C27: each successful booking has emitted a 'booking created'
\* notification to the requester and one to the provider's owner (the
\* hospital of a service, the doctor of an appointment), and a request that
\* is at its notifications holds no lock.
BookingNotifiesBothParties ==
    \A s \in DOMAIN sessions :
        /\ (sessions[s].op \in {"book_service", "book_appointment"}
            /\ sessions[s].pc = "notify")
           => \A l \in named_locks : l.holder # s
        /\ (sessions[s].op = "book_service" /\ sessions[s].pc = "done"
            /\ sessions[s].resp = "ok")
           => (/\ \E n \in notifications :
                    n.user_id = sessions[s].user /\ n.id = sessions[s].bid
               /\ \E n \in notifications :
                    /\ n.user_id = sessions[s].hospital_user_id
                    /\ n.id = sessions[s].bid)
        /\ (sessions[s].op = "book_appointment" /\ sessions[s].pc = "done"
            /\ sessions[s].resp = "ok")
           => (/\ \E n \in notifications :
                    /\ n.user_id = sessions[s].user
                    /\ n.id = sessions[s].appt_id
                    /\ n.type = "appointment_booked"
               /\ \E n \in notifications :
                    /\ n.user_id = sessions[s].doctor_id
                    /\ n.id = sessions[s].appt_id
                    /\ n.type = "appointment_booked")

(***************************************************************************)
(* The search's failure, under SpecAlloc                                   *)
(***************************************************************************)

\* C26: the nearest-slot search ends without a slot (book_service answers
\* 'full') only when every candidate desired + i*step and desired - i*step
\* that lies inside the window is in the taken set; whenever one of them is
\* free the search returns a slot.
FullOnlyWhenEveryCandidateTaken ==
    alloc.pc = "full" =>
        LET step == StepOf(alloc.duration_minutes)
            d == DesiredMin(alloc.time_part, alloc.wstart, alloc.wend)
            lo == WStartMin(alloc.wstart)
            hi == WEndMin(alloc.wend)
        IN  \A i \in 0 .. (hi - lo) : \A sign \in {1, -1} :
                LET cm == d + sign * i * step
                IN  (lo <= cm /\ cm <= hi) => min_to_hhmm(cm) \in alloc.taken

\* the search failed in a window whose three slots are all taken
FullWithEverySlotTaken ==
    /\ alloc.pc = "full"
    /\ alloc.wstart = <<9, 0>> /\ alloc.wend = <<10, 0>>
    /\ alloc.duration_minutes = 30
    /\ alloc.taken = {<<9, 0>>, <<9, 30>>, <<10, 0>>}

(***************************************************************************)
(* Counts of the booking handlers, under SpecSvc and SpecAppt              *)
(***************************************************************************)

\* the active (booked or confirmed) service bookings of a service and day
ActiveServiceBookings(service_id, day) ==
    {i \in Ids(service_bookings) :
        /\ service_bookings[i].service_id = service_id
        /\ DateOf(service_bookings[i].scheduled_at) = day
        /\ service_bookings[i].status \in ActiveStatuses}

\* the active appointments of a doctor/hospital pair and day
ActiveAppointments(doctor_id, hospital_id, day) ==
    {i \in DayAppointments(doctor_id, hospital_id, day) :
        appointments[i].status \in ActiveStatuses}

\* C22: the serial stored with a new row equals 1 + the number of active
\* (booked or confirmed) rows of its (provider, day) at the moment the row
\* is inserted.
SerialIsActiveCountPlusOne ==
    [][/\ Len(service_bookings') > Len(service_bookings)
          => LET row == service_bookings'[Len(service_bookings')]
             IN  row.serial = 1 + Cardinality(ActiveServiceBookings(
                     row.service_id, DateOf(row.scheduled_at)))
       /\ Len(appointments') > Len(appointments)
          => LET row == appointments'[Len(appointments')]
             IN  row.serial = 1 + Cardinality(ActiveAppointments(
                     row.doctor_user_id, row.hospital_user_id,
                     DateOf(row.starts_at)))]_vars

\* C24: the count book_service compares with max_per_day is the number of
\* booked or confirmed rows of the service and day: the capacity step
\* answers 'full' exactly when that number has reached the limit
\* (confirmed rows count; cancelled, declined and done rows do not).
CapacityCountsActive ==
    [][\A s \in DOMAIN sessions :
         (/\ sessions[s].op = "book_service"
          /\ sessions[s].pc = "capacity"
          /\ sessions'[s].pc # "capacity")
         => ((sessions'[s].resp = "full")
             <=> (Cardinality(ActiveServiceBookings(sessions[s].service_id,
                                                    sessions[s].effective_day))
                    >= hospital_services[sessions[s].service_id].max_per_day))
      ]_vars

\* C23: a requester has at most one active booking with a provider on a
\* day, also when two requests of the same requester ran concurrently: no
\* two appointments of one patient with one doctor/hospital pair on one day.
OneAppointmentPerPatientDay ==
    \A i, j \in Ids(appointments) :
        (/\ i # j
         /\ appointments[i].patient_user_id = appointments[j].patient_user_id
         /\ appointments[i].doctor_user_id = appointments[j].doctor_user_id
         /\ appointments[i].hospital_user_id = appointments[j].hospital_user_id
         /\ appointments[i].status \in ActiveStatuses
         /\ appointments[j].status \in ActiveStatuses)
        => DateOf(appointments[i].starts_at) # DateOf(appointments[j].starts_at)

(***************************************************************************)
(* Booking again after a final status, under SpecRebook                    *)
(***************************************************************************)

\* the rows the requester of a booking request has with the request's
\* provider on the request's day
OwnRowsStatuses(r) ==
    IF r.op = "book_service"
    THEN {service_bookings[i].status : i \in
            {j \in Ids(service_bookings) :
                /\ service_bookings[j].user_id = r.user
                /\ service_bookings[j].service_id = r.service_id
                /\ DateOf(service_bookings[j].scheduled_at) = r.effective_day}}
    ELSE {appointments[i].status : i \in
            {j \in DayAppointments(r.doctor_id, r.hospital_id, r.day) :
                appointments[j].patient_user_id = r.user}}

\* C25: the one-per-day check counts only active bookings: a booking
\* request of a requester whose bookings with the provider on the day are
\* all in a final status (cancelled, declined or done) is not answered with
\* the duplicate-booking error.
RebookAfterFinalStatus ==
    [][\A s \in DOMAIN sessions :
         (/\ sessions[s].pc = "idle"
          /\ sessions'[s].op \in {"book_service", "book_appointment"}
          /\ OwnRowsStatuses(sessions'[s]) # {}
          /\ OwnRowsStatuses(sessions'[s]) \subseteq
                {"cancelled", "declined", "done"})
         => sessions'[s].resp \notin {"one_per_day",
                                      "already_booked_same_day"}]_vars

(***************************************************************************)
(* Concurrent lifecycle requests on one booking, under SpecLife            *)
(***************************************************************************)

\* the lifecycle requests on a service booking
ServiceLifecycleOps ==
    {"confirm_service_booking", "decline_service_booking",
     "request_cancel_service_booking"}

\* the status the UPDATE of a lifecycle request expects and the one it
\* writes
SourceOf(op) ==
    IF op \in ServiceLifecycleOps \/ op = "request_cancel_appointment"
    THEN "booked" ELSE RequiredStatus(op)

TargetOf(op) ==
    IF op = "confirm_service_booking" THEN "confirmed"
    ELSE IF op = "decline_service_booking" THEN "declined"
    ELSE IF op = "request_cancel_service_booking" THEN "cancelled"
    ELSE IF op = "request_cancel_appointment" THEN "cancel_requested"
    ELSE TargetStatus(op)

\* the status of the row of a lifecycle request in a pair of tables
StatusIn(r, sb, ap) ==
    IF r.op \in ServiceLifecycleOps THEN sb[r.booking_id].status
    ELSE ap[r.booking_id].status

\* C28: when lifecycle requests run concurrently on one booking, each
\* UPDATE takes effect only on a row still in the status it expects and
\* else changes nothing; the status of a service booking therefore changes
\* once, from booked to the target of the UPDATE applied first.
OneUpdateTakesEffect ==
    [][/\ \A s \in DOMAIN sessions :
            (/\ sessions[s].pc = "update"
             /\ sessions'[s].pc = "notify")
            => LET r == sessions[s]
                   old == StatusIn(r, service_bookings, appointments)
                   new == StatusIn(r, service_bookings', appointments')
               IN  IF old = SourceOf(r.op) THEN new = TargetOf(r.op)
                   ELSE /\ service_bookings' = service_bookings
                        /\ appointments' = appointments
       /\ \A i \in Ids(service_bookings) :
            service_bookings'[i].status # service_bookings[i].status
            => (/\ service_bookings[i].status = "booked"
                /\ service_bookings'[i].status # "booked")]_vars

\* a confirm and a cancel of the same service booking have both run their
\* UPDATE; the cancel was first and the booking is cancelled
ConfirmLostToCancel ==
    /\ service_bookings[1].status = "cancelled"
    /\ \E s \in DOMAIN sessions :
         /\ sessions[s].op = "confirm_service_booking"
         /\ sessions[s].pc = "notify"
    /\ \E s \in DOMAIN sessions :
         /\ sessions[s].op = "request_cancel_service_booking"
         /\ sessions[s].pc = "notify"

\* C29: a lifecycle request answers {'ok': True, 'status': S} only if its
\* own UPDATE changed the status to S: for the operations whose target is
\* never left (confirmed, declined, cancelled of a service booking; done
\* and cancelled of an appointment), the row of a request answered 'ok' has
\* the request's target status.
SuccessMeansUpdateApplied ==
    \A s \in DOMAIN sessions :
        (/\ sessions[s].op \in ServiceLifecycleOps \cup
               {"confirm_appointment", "approve_cancel_appointment"}
         /\ sessions[s].pc = "done"
         /\ sessions[s].resp = "ok")
        => StatusIn(sessions[s], service_bookings, appointments)
             = TargetOf(sessions[s].op)

BedsSessions == {1, 2}

\* the row book_service wrote for user 2's crisis-linked request of
\* service 1 at 09:00 of day 2
BedsSecondBooking ==
    [user_id |-> 2, hospital_user_id |-> 10, service_id |-> 1,
     scheduled_at |-> Timestamp(2, <<9, 0>>), status |-> InitialStatus,
     serial |-> 1, approx_time |-> <<9, 0>>, crisis_id |-> 1]

InitBeds ==
    /\ now = Now0
    /\ service_bookings = <<LifeServiceBooking, BedsSecondBooking>>
    /\ appointments = <<>>
    /\ named_locks = {}
    /\ notifications = {}
    /\ sessions = [s \in BedsSessions |-> Idle]
    /\ alloc = IdleAlloc
    /\ available_beds = InitialBeds

NextBeds ==
    \E s \in BedsSessions :
        \/ \E op \in {"confirm_service_booking", "decline_service_booking"} :
             \E b \in Ids(service_bookings) :
                HospitalDecision_Select(s, op, 10, b)
        \/ ConfirmService_ReadBeds(s)
        \/ ConfirmService_DecrementBeds(s)
        \/ ConfirmService_Update(s)
        \/ ConfirmService_Notify(s)
        \/ DeclineService_Update(s)
        \/ DeclineService_Notify(s)
        \/ SessionReturn(s)

SpecBeds == InitBeds /\ [][NextBeds]_vars

(***************************************************************************)
(* Properties of concurrent confirmations, under SpecBeds                  *)
(***************************************************************************)

\* C31: for the crisis-linked non-ambulance bookings of one hospital and
\* incident, under any interleaving of confirm_service_booking requests,
\* the bookings with status confirmed are never more than the initial
\* available_beds (the no_beds answer of a confirm that reads
\* available_beds = 0 is ConfirmService_ReadBeds, which writes nothing).
ConfirmedWithinInitialBeds ==
    Cardinality(ConfirmedBedBookings) <= InitialBeds


(***************************************************************************)
(* Properties of requests outside the window, under SpecSvc                *)
(***************************************************************************)

\* a book_service request for a non-ambulance service with a window, whose
\* requested time of day lies outside [window_start, window_end]
OutsideWindowRequest(r) ==
    /\ r.op = "book_service"
    /\ ~hospital_services[r.service_id].ambulance
    /\ hospital_services[r.service_id].window_start_time # NoTime
    /\ hospital_services[r.service_id].window_end_time # NoTime
    /\ r.scheduled_at # NoSched
    /\ hhmm_to_min(r.scheduled_at[2]) # NoMin
    /\ \/ hhmm_to_min(r.scheduled_at[2])
            < hhmm_to_min(hospital_services[r.service_id].window_start_time)
       \/ hhmm_to_min(r.scheduled_at[2])
            > hhmm_to_min(hospital_services[r.service_id].window_end_time)

DaysSessions == {1, 2}

\* booking requests are accepted while each table stays this small
DaysMaxRows == 2

\* the requesters
DaysUsers == {1, 2}

\* request bodies' scheduled_at of book_service: 09:00 of day 1 and of day 2
DaysScheduledAts == {<<1, <<9, 0>>>>, <<2, <<9, 0>>>>}

\* request bodies' <<starts_at, ends_at>> of book_appointment: 09:00-09:30
\* of day 1 and of day 8, the next day of the same weekday
DaysTimes ==
    {<<<<1, <<9, 0>>>>, <<1, <<9, 30>>>>>>,
     <<<<8, <<9, 0>>>>, <<8, <<9, 30>>>>>>}

InitDays == InitStore(DaysSessions) /\ alloc = IdleAlloc

NextDays ==
    \E s \in DaysSessions :
        \/ /\ Len(service_bookings) + PendingBookService < DaysMaxRows
           /\ \E u \in DaysUsers, at \in DaysScheduledAts :
                BookService_Begin(s, u, 1, 10, at, 0)
        \/ BookService_Capacity(s)
        \/ BookService_GetLock(s)
        \/ BookService_LockTimeout(s)
        \/ BookService_DayTotal(s)
        \/ BookService_Allocate(s)
        \/ BookService_Release(s)
        \/ BookService_Insert(s)
        \/ BookService_Notify(s)
        \/ /\ Len(appointments) + PendingBookAppointment < DaysMaxRows
           /\ \E u \in DaysUsers, t \in DaysTimes :
                BookAppointment_Begin(s, u, 20, 10, t[1], t[2])
        \/ BookAppointment_GetLock(s)
        \/ BookAppointment_LockTimeout(s)
        \/ BookAppointment_DayCount(s)
        \/ BookAppointment_Insert(s)
        \/ BookAppointment_Release(s)
        \/ BookAppointment_Notify(s)
        \/ SessionReturn(s)

SpecDays == InitDays /\ [][NextDays]_vars


(***************************************************************************)
(* Properties of the lock keys, under SpecDays                             *)
(***************************************************************************)

\* the calendar day a booking request asks its lock for
LockDayOf(r) == IF r.op = "book_service" THEN r.date_part ELSE r.day

\* two booking requests for the same provider
SameProvider(r, q) ==
    /\ r.op = q.op
    /\ IF r.op = "book_service" THEN r.service_id = q.service_id
       ELSE r.doctor_id = q.doctor_id /\ r.hospital_id = q.hospital_id

\* the booking request of worker s holds its (provider, day) lock
HoldsOwnLock(s) ==
    /\ sessions[s].op \in {"book_service", "book_appointment"}
    /\ [key |-> LockKeyOf(sessions[s]), holder |-> s] \in named_locks

\* C33: two booking requests for the same provider on different calendar
\* days use different lock keys and never block each other: while one
\* holds its lock, the other's lock is free for it to take, and a request's
\* GET_LOCK times out only while a request for the same provider and the
\* same day holds the lock.
DifferentDaysNeverBlock ==
    [][\A s \in DOMAIN sessions :
         (sessions[s].op \in {"book_service", "book_appointment"}
          /\ sessions[s].pc = "get_lock")
         => /\ \A t \in DOMAIN sessions \ {s} :
                 (HoldsOwnLock(t)
                  /\ SameProvider(sessions[s], sessions[t])
                  /\ LockDayOf(sessions[s]) # LockDayOf(sessions[t]))
                 => /\ LockKeyOf(sessions[s]) # LockKeyOf(sessions[t])
                    /\ LockHolder(LockKeyOf(sessions[s])) = 0
            /\ sessions'[s].timed_out
               => \E t \in DOMAIN sessions \ {s} :
                     /\ HoldsOwnLock(t)
                     /\ SameProvider(sessions[s], sessions[t])
                     /\ LockDayOf(sessions[s]) = LockDayOf(sessions[t])]_vars

\* two requests for the same provider hold the locks of two different days
\* at the same time
BothHoldLocksOfDifferentDays ==
    \E s, t \in DOMAIN sessions :
        /\ s # t
        /\ HoldsOwnLock(s) /\ HoldsOwnLock(t)
        /\ SameProvider(sessions[s], sessions[t])
        /\ LockDayOf(sessions[s]) # LockDayOf(sessions[t])


(***************************************************************************)
(* SpecCap: one worker serves book_appointment requests of three patients  *)
(* and the lifecycle requests on their rows, one after another             *)
(***************************************************************************)

\* book_appointment requests are accepted while the table stays this small
CapMaxRows == 3

\* the patients
CapUsers == {1, 2, 3}

NextCap ==
    \E s \in RebookSessions :
        \/ /\ Len(appointments) < CapMaxRows
           /\ \E u \in CapUsers :
                BookAppointment_Begin(s, u, 20, 10, <<1, <<9, 0>>>>,
                                      <<1, <<9, 30>>>>)
        \/ BookAppointment_GetLock(s)
        \/ BookAppointment_DayCount(s)
        \/ BookAppointment_Insert(s)
        \/ BookAppointment_Release(s)
        \/ BookAppointment_Notify(s)
        \/ \E u \in CapUsers, b \in 1 .. CapMaxRows :
             RequestCancelAppointment_Select(s, u, b)
        \/ RequestCancelAppointment_Update(s)
        \/ RequestCancelAppointment_Notify(s)
        \/ \E b \in 1 .. CapMaxRows,
              op \in {"confirm_appointment", "approve_cancel_appointment",
                      "decline_cancel_appointment"} :
             DoctorDecision_Select(s, op, 20, b)
        \/ DoctorDecision_Update(s)
        \/ DoctorDecision_Notify(s)
        \/ SessionReturn(s)

SpecCap == InitRebook /\ [][NextCap]_vars

(***************************************************************************)
(* Properties of the appointment capacity, under SpecCap                   *)
(***************************************************************************)

\* the appointments of a doctor/hospital pair and day that have not reached
\* a terminal status
OpenAppointments(doctor_id, hospital_id, day) ==
    {i \in DayAppointments(doctor_id, hospital_id, day) :
        appointments[i].status \notin TerminalStatuses}

\* C34: the per-day limit of book_appointment is the sum N of max_per_day
\* over the pair's schedule blocks of the requested weekday: with N > 0, a
\* sequential request that reaches the capacity test is answered
\* capacity_full (and inserts nothing) exactly when N appointments of the
\* day are active; with fewer it is not rejected for capacity.
CapacityFullOnlyAtSum ==
    [][\A s \in DOMAIN sessions :
         (/\ sessions[s].op = "book_appointment"
          /\ sessions[s].pc = "day_count"
          /\ sessions'[s].pc # "day_count")
         => LET r == sessions[s]
                N == SumMaxPerDay(SchedulesOf(r.doctor_id, r.hospital_id,
                                              WeekdayOf(r.day)))
            IN  /\ N > 0
                /\ (sessions'[s].resp = "capacity_full")
                   <=> (Cardinality(OpenAppointments(r.doctor_id,
                                        r.hospital_id, r.day)) >= N)
                /\ sessions'[s].resp = "capacity_full"
                   => appointments' = appointments]_vars


(***************************************************************************)
(* Properties of the cancellation of an appointment, under SpecLife        *)
(***************************************************************************)

\* worker s is running the UPDATE of operation op on appointment i, sent by
\* user u
AppointmentUpdateBy(s, op, i, u) ==
    /\ sessions[s].op = op
    /\ sessions[s].pc = "update"
    /\ sessions[s].booking_id = i
    /\ sessions[s].user = u

\* C35: an appointment becomes cancelled only from cancel_requested, by the
\* approval of its own doctor; it becomes cancel_requested only from
\* booked, by the request of its own patient; the doctor's decline returns
\* a cancel_requested appointment to booked, and cancel_requested is left
\* in no other way.  Hence no appointment is cancelled without a preceding
\* request of the patient.
CancelledOnlyAfterRequestAndApproval ==
    [][\A i \in Ids(appointments) :
         LET old == appointments[i]
             new == appointments'[i]
         IN  /\ (new.status = "cancelled" /\ old.status # "cancelled")
                => /\ old.status = "cancel_requested"
                   /\ \E s \in DOMAIN sessions :
                        AppointmentUpdateBy(s, "approve_cancel_appointment",
                                            i, old.doctor_user_id)
             /\ (new.status = "cancel_requested"
                 /\ old.status # "cancel_requested")
                => /\ old.status = "booked"
                   /\ \E s \in DOMAIN sessions :
                        AppointmentUpdateBy(s, "request_cancel_appointment",
                                            i, old.patient_user_id)
             /\ (old.status = "cancel_requested"
                 /\ new.status \notin {"cancel_requested", "cancelled"})
                => /\ new.status = "booked"
                   /\ \E s \in DOMAIN sessions :
                        AppointmentUpdateBy(s, "decline_cancel_appointment",
                                            i, old.doctor_user_id)]_vars

\* the appointment is cancelled after a first request of the patient was
\* declined by the doctor and a second one approved
CancelledAfterDeclinedRequest ==
    /\ appointments[1].status = "cancelled"
    /\ \E n \in notifications : n.type = "appointment_cancel_declined"
    /\ \E n \in notifications : n.type = "appointment_cancel_approved"


(***************************************************************************)
(* SpecClosed: one worker serves book_service requests and the hospital's  *)
(* decisions while one booking is linked to a crisis whose incident has    *)
(* been closed since the booking was made                                  *)
(***************************************************************************)

\* book_service requests are accepted while the table stays this small
ClosedMaxBookings == 2

\* request bodies' crisis_id: none, the open crisis, or the closed crisis
ClosedCrises == {0, 1, 2}

\* the row book_service wrote for user 1's request of service 1 at 09:00 of
\* day 2, linked to crisis 2 while its incident was open
ClosedCrisisBooking ==
    [user_id |-> 1, hospital_user_id |-> 10, service_id |-> 1,
     scheduled_at |-> Timestamp(2, <<9, 0>>), status |-> InitialStatus,
     serial |-> 1, approx_time |-> <<9, 0>>, crisis_id |-> 2]

InitClosed ==
    /\ now = Now0
    /\ service_bookings = <<ClosedCrisisBooking>>
    /\ appointments = <<>>
    /\ named_locks = {}
    /\ notifications = {}
    /\ sessions = [s \in SeqSessions |-> Idle]
    /\ alloc = IdleAlloc
    /\ available_beds = InitialBeds

NextClosed ==
    \E s \in SeqSessions :
        \/ /\ Len(service_bookings) < ClosedMaxBookings
           /\ \E u \in SeqUsers, c \in ClosedCrises :
                BookService_Begin(s, u, 1, 10, <<1, <<9, 0>>>>, c)
        \/ BookService_Capacity(s)
        \/ BookService_GetLock(s)
        \/ BookService_DayTotal(s)
        \/ BookService_Allocate(s)
        \/ BookService_Release(s)
        \/ BookService_Insert(s)
        \/ BookService_Notify(s)
        \/ \E b \in 1 .. ClosedMaxBookings,
              op \in {"confirm_service_booking", "decline_service_booking"} :
             HospitalDecision_Select(s, op, 10, b)
        \/ ConfirmService_ReadBeds(s)
        \/ ConfirmService_DecrementBeds(s)
        \/ ConfirmService_Update(s)
        \/ ConfirmService_Notify(s)
        \/ DeclineService_Update(s)
        \/ DeclineService_Notify(s)
        \/ SessionReturn(s)

SpecClosed == InitClosed /\ [][NextClosed]_vars

(***************************************************************************)
(* Properties of a closed crisis, under SpecClosed                         *)
(***************************************************************************)

\* the incident of the crisis is closed or cancelled
CrisisClosed(crisis_id) == crisis_id # 0 /\ ~RequireCrisisOpen(crisis_id)

\* C36: once the incident of a crisis is closed or cancelled, book_service
\* creates no booking linked to that crisis, no step of
\* confirm_service_booking or decline_service_booking changes a booking
\* linked to it, and a request answered crisis_closed has not changed
\* available_beds.
ClosedCrisisBlocksWrites ==
    [][/\ \A i \in Ids(service_bookings) :
            CrisisClosed(service_bookings[i].crisis_id)
            => service_bookings'[i] = service_bookings[i]
       /\ \A i \in Ids(service_bookings') \ Ids(service_bookings) :
            ~CrisisClosed(service_bookings'[i].crisis_id)
       /\ \A s \in DOMAIN sessions :
            (/\ sessions[s].op \in {"confirm_service_booking",
                                    "decline_service_booking"}
             /\ sessions[s].booking_id \in Ids(service_bookings)
             /\ CrisisClosed(service_bookings[sessions[s].booking_id].crisis_id))
            => available_beds' = available_beds]_vars


(***************************************************************************)
(* SpecGrid: one worker serves book_service requests for a service that    *)
(* takes several bookings a day, at desired times on and off its slot grid *)
(***************************************************************************)

\* book_service requests are accepted while the table stays this small
GridMaxBookings == 3

\* the requesters
GridUsers == {1, 2, 3}

\* request bodies' scheduled_at: 09:00, 09:15, 09:30 and 09:50 of day 1
GridScheduledAts ==
    {<<1, <<9, 0>>>>, <<1, <<9, 15>>>>, <<1, <<9, 30>>>>, <<1, <<9, 50>>>>}

NextGrid ==
    \E s \in SeqSessions :
        \/ /\ Len(service_bookings) < GridMaxBookings
           /\ \E u \in GridUsers, at \in GridScheduledAts :
                BookService_Begin(s, u, 4, 10, at, 0)
        \/ BookService_Capacity(s)
        \/ BookService_GetLock(s)
        \/ BookService_DayTotal(s)
        \/ BookService_Allocate(s)
        \/ BookService_Release(s)
        \/ BookService_Insert(s)
        \/ BookService_Notify(s)
        \/ SessionReturn(s)

SpecGrid == InitSeq /\ [][NextGrid]_vars

(***************************************************************************)
(* Properties of the allocated times, under SpecGrid                       *)
(***************************************************************************)

\* the distance of two numbers
Distance(a, b) == IF a < b THEN b - a ELSE a - b

\* C37: for a non-immediate service with slot duration step > 0, any two
\* active bookings of the same service and day have allocated times at
\* least step minutes apart, so that their intervals [t, t + step) do not
\* overlap, whatever desired times the requesters supplied.
ActiveSlotsStepApart ==
    \A i, j \in Ids(service_bookings) :
        (/\ i # j
         /\ service_bookings[i].service_id = service_bookings[j].service_id
         /\ ~hospital_services[service_bookings[i].service_id].ambulance
         /\ hospital_services[service_bookings[i].service_id].duration_minutes
              > 0
         /\ DateOf(service_bookings[i].scheduled_at)
              = DateOf(service_bookings[j].scheduled_at)
         /\ service_bookings[i].status \in ActiveStatuses
         /\ service_bookings[j].status \in ActiveStatuses)
        => Distance(hhmm_to_min(service_bookings[i].approx_time),
                    hhmm_to_min(service_bookings[j].approx_time))
             >= StepOf(hospital_services[service_bookings[i].service_id]
                         .duration_minutes)


(***************************************************************************)
(* SpecFair: two workers serve booking requests for one service and one    *)
(* doctor/hospital pair on one day; worker 1 is always scheduled again,    *)
(* worker 2 may stop at any point, also while it holds a lock              *)
(***************************************************************************)

\* booking requests are accepted while each table stays this small
FairMaxRows == 2

\* the steps of a booking request in progress on worker s: every statement
\* of the two handlers either completes or, for GET_LOCK, answers within
\* its 10 second timeout
BookingStep(s) ==
    \/ BookService_Capacity(s)
    \/ BookService_GetLock(s)
    \/ BookService_LockTimeout(s)
    \/ BookService_DayTotal(s)
    \/ BookService_Allocate(s)
    \/ BookService_Release(s)
    \/ BookService_Insert(s)
    \/ BookService_Notify(s)
    \/ BookAppointment_GetLock(s)
    \/ BookAppointment_LockTimeout(s)
    \/ BookAppointment_DayCount(s)
    \/ BookAppointment_Insert(s)
    \/ BookAppointment_InsertFails(s)
    \/ BookAppointment_Release(s)
    \/ BookAppointment_Notify(s)

NextFair ==
    \E s \in BookSessions :
        \/ /\ Len(service_bookings) + PendingBookService < FairMaxRows
           /\ \E u \in BookUsers :
                BookService_Begin(s, u, 1, 10, <<1, <<9, 0>>>>, 0)
        \/ /\ Len(appointments) + PendingBookAppointment < FairMaxRows
           /\ \E u \in BookUsers :
                BookAppointment_Begin(s, u, 20, 10, <<1, <<9, 0>>>>,
                                      <<1, <<9, 30>>>>)
        \/ BookingStep(s)
        \/ SessionReturn(s)

SpecFair == InitBook /\ [][NextFair]_vars /\ WF_vars(BookingStep(1))

(***************************************************************************)
(* Properties of termination, under SpecFair                               *)
(***************************************************************************)

\* C38: under fair scheduling every booking request eventually returns a
\* response, success or error, even when another request holds the same
\* (provider, day) lock and never releases it: the only step that waits is
\* the lock acquisition, and it ends at the timeout.
EveryBookingRequestReturns ==
    (sessions[1].op \in {"book_service", "book_appointment"})
    ~> (sessions[1].pc = "done")

\* worker 1's request has returned after a lock timeout while worker 2's
\* request for the same provider and day still holds the lock
ReturnedWhileLockStillHeld ==
    /\ sessions[1].op \in {"book_service", "book_appointment"}
    /\ sessions[1].pc = "done"
    /\ sessions[1].timed_out
    /\ sessions[2].op = sessions[1].op
    /\ [key |-> LockKeyOf(sessions[2]), holder |-> 2] \in named_locks

=============================================================================
